---- MODULE Spec2Model ----
(***************************************************************************)
(* Model of the wtf-server transcription pipeline: the orchestrator        *)
(* transcribeVcon (services/transcription.ts), the parser and normalizer   *)
(* (services/vcon-parser.ts), the audio extractor                          *)
(* (services/audio-extractor.ts, utils/audio.ts), the provider registry    *)
(* and base provider (providers/index.ts, providers/base.ts), the enricher *)
(* (services/vcon-enricher.ts) and the two transcription routes            *)
(* (routes/transcribe.ts).                                                 *)
(*                                                                         *)
(* One request is received and run to completion.  Each document of the    *)
(* request is a task that advances through the suspension points of        *)
(* transcribeVcon; tasks of a batch interleave freely, and so do the       *)
(* completions of the backend calls of one task.                           *)
(***************************************************************************)
EXTENDS Integers, Sequences, FiniteSets, TLC

(* ------------------------------ bounds --------------------------------- *)

\* documents in one batch request
MaxDocs == 2
\* dialogs in the document of a single-document request
MaxDialogs == 2
\* pre-existing analysis entries in the document of a single-document request
MaxAnalysis == 2
\* entries of the registry's history up to which the registry is still
\* called directly
MaxRegistryOps == 3
\* dialogs in a document handed to the parser on its own
MaxFnDialogs == 2
\* segments in a provider result handed to the enricher on its own
MaxSegments == 2
\* words nested in one segment of such a result
MaxSegWords == 2
\* segments in a backend response
MaxNvSegments == 3
\* entries handed to extractAudioFromDialogs on its own
MaxExtractDialogs == 3

(* ------------------------- program constants --------------------------- *)

\* config.maxAudioSizeMb, default
MaxAudioSizeMb == 100

maxSizeBytes == MaxAudioSizeMb * 1024 * 1024

SUPPORTED_AUDIO_TYPES ==
    {"audio/wav", "audio/wave", "audio/x-wav", "audio/mp3", "audio/mpeg",
     "audio/flac", "audio/ogg", "audio/webm", "audio/x-m4a", "audio/mp4"}

\* the AsrProvider union / the switch of createProvider
KnownProviders ==
    {"nvidia", "openai", "deepgram", "groq", "local-whisper", "mlx-whisper"}

\* the failures a backend call can end in: non-200 response, connection
\* failure, bodyTimeout/headersTimeout
BackendErrors == {"non200", "unreachable", "timeout"}

(* --------------------------- input universe ---------------------------- *)

\* Optional fields are [has, v] pairs; body and mediatype use "none" for an
\* absent string.  duration -1 stands for an absent duration.
InlineAudio ==
    [type |-> "recording", mediatype |-> "audio/wav", body |-> "data",
     bodyLen |-> 44, url |-> FALSE, duration |-> 5]
UrlAudio ==
    [type |-> "recording", mediatype |-> "audio/ogg", body |-> "none",
     bodyLen |-> 0, url |-> TRUE, duration |-> -1]
EmptyRecording ==
    [type |-> "recording", mediatype |-> "audio/wav", body |-> "none",
     bodyLen |-> 0, url |-> FALSE, duration |-> -1]
TextDialog ==
    [type |-> "text", mediatype |-> "text/plain", body |-> "data",
     bodyLen |-> 5, url |-> FALSE, duration |-> -1]
VideoRecording ==
    [type |-> "recording", mediatype |-> "video/mp4", body |-> "none",
     bodyLen |-> 0, url |-> TRUE, duration |-> -1]
UntypedRecording ==
    [type |-> "recording", mediatype |-> "none", body |-> "data",
     bodyLen |-> 44, url |-> FALSE, duration |-> -1]

DialogKinds ==
    {InlineAudio, UrlAudio, EmptyRecording, TextDialog, VideoRecording,
     UntypedRecording}

\* the sizes a remote audio URL can deliver
FetchedLens == {44, maxSizeBytes + 1}

RECURSIVE SeqsUpTo(_, _)
SeqsUpTo(S, n) ==
    IF n = 0 THEN {<<>>}
    ELSE LET shorter == SeqsUpTo(S, n - 1)
         IN  shorter \cup
             {Append(s, x) : s \in {q \in shorter : Len(q) = n - 1}, x \in S}

PreAnalysis(j) == [type |-> "summary", vendor |-> "acme", body |-> j]

DialogChoices(n) ==
    {[has |-> FALSE, v |-> <<>>]} \cup
    {[has |-> TRUE, v |-> s] : s \in SeqsUpTo(DialogKinds, n)}

AnalysisChoices(n) ==
    {[has |-> FALSE, v |-> <<>>]} \cup
    {[has |-> TRUE, v |-> [j \in 1..m |-> PreAnalysis(j)]] : m \in 0..n}

\* A document: uuid 0 stands for a missing or malformed uuid, any other
\* value is a well-formed uuid (documents of a batch carry their position).
DocsAt(pos, dialogChoices, analysisChoices) ==
    {[uuid |-> u, dialog |-> dl, analysis |-> an,
      attachments |-> [has |-> FALSE, v |-> <<>>], updated_at |-> "none"] :
        u \in {0, pos}, dl \in dialogChoices, an \in analysisChoices}

\* the document of a direct call or of POST /transcribe
SingleDocs ==
    DocsAt(1, DialogChoices(MaxDialogs), AnalysisChoices(MaxAnalysis))

\* the documents of POST /transcribe/batch: the batch handler does not look
\* into a document, so its documents carry at most one dialog and no
\* analysis; longer documents are covered by the single-document requests
BatchDocsAt(pos) ==
    DocsAt(pos, DialogChoices(1), {[has |-> FALSE, v |-> <<>>]})

RECURSIVE BatchSeqs(_, _)
BatchSeqs(pos, n) ==
    IF n = 0 THEN {<<>>}
    ELSE {<<d>> \o rest : d \in BatchDocsAt(pos), rest \in BatchSeqs(pos + 1, n - 1)}

\* options.provider / ?provider= : absent, two real backends, an unknown one
ProviderChoices == {"none", "nvidia", "groq", "bogus"}

\* options.model / ?model= : absent, or a model that is no backend's default
ModelChoices == {"none", "whisper-large-v3"}

\* process configuration: the default backend and the credentials (TRUE: a
\* non-empty key is set); the endpoint URLs always have their defaults
ConfigOf(asrProvider, groqApiKey, openaiApiKey, deepgramApiKey) ==
    [asrProvider |-> asrProvider, groqApiKey |-> groqApiKey,
     openaiApiKey |-> openaiApiKey, deepgramApiKey |-> deepgramApiKey,
     localWhisperUrl |-> TRUE, mlxWhisperUrl |-> TRUE]

\* the configurations of the transcription requests
Configs ==
    {ConfigOf("nvidia", FALSE, FALSE, FALSE),
     ConfigOf("groq", TRUE, FALSE, FALSE),
     ConfigOf("groq", FALSE, FALSE, FALSE)}

\* the configurations of the health requests: any default backend, any
\* combination of credentials
HealthConfigs ==
    {ConfigOf(p, g, o, d) :
        p \in KnownProviders, g \in BOOLEAN, o \in BOOLEAN, d \in BOOLEAN}

\* how one probe request of a health check can end: 200 with a body whose
\* status is "ok", 200 with another status, 200 with a body that is not
\* JSON, another status code, no response
ProbeOutcomes == {"ok200", "other200", "badjson200", "non200", "neterr"}

(* ------------------------ utils/audio.ts ------------------------------- *)

\* JavaScript truthiness of an optional string
Truthy(s) == s \notin {"none", ""}

isSupportedAudioType(mediatype) == mediatype \in SUPPORTED_AUDIO_TYPES


\* variant: the media type is not checked against the whitelist
isAudioDialog_anyMedia(dialog) ==
    IF dialog.type # "recording" THEN FALSE
    ELSE Truthy(dialog.mediatype)

isAudioDialog(dialog) ==
    IF dialog.type # "recording" THEN FALSE
    ELSE IF ~Truthy(dialog.mediatype) THEN FALSE
    ELSE isSupportedAudioType(dialog.mediatype)

\* extractAudioFromDialog: the set of ways one call can end.  net says
\* whether the call fetched the remote URL.
extractAudioFromDialog(dialog) ==
    IF ~isAudioDialog(dialog)
    THEN {[kind |-> "null", len |-> 0, net |-> FALSE]}
    ELSE IF Truthy(dialog.body)
    THEN {[kind |-> "buffer", len |-> dialog.bodyLen, net |-> FALSE]}
    ELSE IF dialog.url
    THEN {[kind |-> "buffer", len |-> n, net |-> TRUE] : n \in FetchedLens}
         \cup {[kind |-> "throw", len |-> 0, net |-> TRUE]}
    ELSE {[kind |-> "null", len |-> 0, net |-> FALSE]}

(* -------------------- schemas/vcon.schema.ts --------------------------- *)


\* variant: the refinement looks at text dialogs only
DialogRefine_textOnly(data) ==
    IF data.type = "text" /\ Truthy(data.body)
    THEN Truthy(data.mediatype)
    ELSE TRUE

\* the refinement of DialogSchema
DialogRefine(data) ==
    IF (data.type = "recording" \/ data.type = "text") /\ Truthy(data.body)
    THEN Truthy(data.mediatype)
    ELSE TRUE

RECURSIVE DialogIssues(_, _)
DialogIssues(dialogs, i) ==
    IF i > Len(dialogs) THEN <<>>
    ELSE (IF DialogRefine(dialogs[i]) THEN <<>>
          ELSE <<[path |-> <<"dialog", i - 1>>,
                  message |-> "mediatype is required when body is present for recording/text"]>>)
         \o DialogIssues(dialogs, i + 1)

\* VconSchema.safeParse: the issues of a document, in field order
VconIssues(input) ==
    (IF input.uuid = 0
     THEN <<[path |-> <<"uuid", 0>>, message |-> "Invalid uuid"]>>
     ELSE <<>>)
    \o DialogIssues(input.dialog.v, 1)

(* -------------------- services/vcon-parser.ts -------------------------- *)


\* variant: the collections are replaced by empty arrays
normalizeVcon_emptied(vcon) ==
    [vcon EXCEPT
        !.dialog = [has |-> TRUE, v |-> <<>>],
        !.analysis = [has |-> TRUE, v |-> <<>>],
        !.attachments = [has |-> TRUE, v |-> <<>>]]

\* {...vcon, dialog: vcon.dialog ?? [], analysis: ..., attachments: ...}
normalizeVcon(vcon) ==
    [vcon EXCEPT
        !.dialog = [has |-> TRUE, v |-> IF vcon.dialog.has THEN vcon.dialog.v ELSE <<>>],
        !.analysis = [has |-> TRUE, v |-> IF vcon.analysis.has THEN vcon.analysis.v ELSE <<>>],
        !.attachments = [has |-> TRUE, v |-> IF vcon.attachments.has THEN vcon.attachments.v ELSE <<>>]]

\* vcon.dialog.map((dialog, index) => ({index, dialog})).filter(isAudioDialog)
RECURSIVE FilterAudio(_, _)
FilterAudio(dialogs, i) ==
    IF i > Len(dialogs) THEN <<>>
    ELSE (IF isAudioDialog(dialogs[i])
          THEN <<[index |-> i - 1, dialog |-> dialogs[i]]>>
          ELSE <<>>)
         \o FilterAudio(dialogs, i + 1)


\* variant: the entries are numbered by their rank among the audio dialogs
parseVcon_renumbered(input) ==
    LET details == VconIssues(input)
    IN  IF details # <<>>
        THEN [success |-> FALSE, error |-> "Invalid VCON format",
              details |-> details, vcon |-> normalizeVcon(input),
              audioDialogs |-> <<>>]
        ELSE LET vcon == normalizeVcon(input)
                 found == FilterAudio(vcon.dialog.v, 1)
             IN  [success |-> TRUE, error |-> "", details |-> <<>>,
                  vcon |-> vcon,
                  audioDialogs |->
                      [k \in 1..Len(found) |->
                          [index |-> k - 1, dialog |-> found[k].dialog]]]

\* variant: every dialog is handed on, audio-bearing or not
parseVcon_unfiltered(input) ==
    LET details == VconIssues(input)
    IN  IF details # <<>>
        THEN [success |-> FALSE, error |-> "Invalid VCON format",
              details |-> details, vcon |-> normalizeVcon(input),
              audioDialogs |-> <<>>]
        ELSE LET vcon == normalizeVcon(input)
             IN  [success |-> TRUE, error |-> "", details |-> <<>>,
                  vcon |-> vcon,
                  audioDialogs |->
                      [k \in 1..Len(vcon.dialog.v) |->
                          [index |-> k - 1, dialog |-> vcon.dialog.v[k]]]]

parseVcon(input) ==
    LET details == VconIssues(input)
    IN  IF details # <<>>
        THEN [success |-> FALSE, error |-> "Invalid VCON format",
              details |-> details, vcon |-> normalizeVcon(input),
              audioDialogs |-> <<>>]
        ELSE LET vcon == normalizeVcon(input)
             IN  [success |-> TRUE, error |-> "", details |-> <<>>,
                  vcon |-> vcon,
                  audioDialogs |-> FilterAudio(vcon.dialog.v, 1)]

(* ----------------------- providers/index.ts ---------------------------- *)

\* createProvider: the switch knows the six backends and throws otherwise
createProviderKnown(provider) == provider \in KnownProviders


\* variant: every backend counts as configured
isConfigured_always(provider, cfg) == TRUE

\* <Backend>AsrProvider.isConfigured over the backend's configuration
isConfigured(provider, cfg) ==
    CASE provider = "nvidia" -> TRUE
      [] provider = "groq" -> cfg.groqApiKey
      [] provider = "openai" -> cfg.openaiApiKey
      [] provider = "deepgram" -> cfg.deepgramApiKey
      [] provider = "local-whisper" -> cfg.localWhisperUrl
      [] provider = "mlx-whisper" -> cfg.mlxWhisperUrl
      [] OTHER -> FALSE

\* <Backend>AsrProvider.model / defaultModel
providerModel(provider) ==
    CASE provider = "nvidia" -> "parakeet-tdt-1.1b"
      [] provider = "groq" -> "whisper-large-v3-turbo"
      [] provider = "openai" -> "whisper-1"
      [] provider = "deepgram" -> "nova-2"
      [] provider = "mlx-whisper" -> "mlx-community/whisper-turbo"
      [] OTHER -> "base"

\* the endpoints a health check tries in turn
healthEndpoints(provider) ==
    CASE provider = "local-whisper" -> 3
      [] provider = "mlx-whisper" -> 2
      [] OTHER -> 1

Unavailable(provider, message) ==
    [kind |-> "returned", status |-> "unavailable", provider |-> provider,
     message |-> message, model |-> ""]

Available(provider, status) ==
    [kind |-> "returned", status |-> status, provider |-> provider,
     message |-> "", model |-> providerModel(provider)]

\* variant: the probe is not guarded by try/catch
healthCheck_uncaught(provider, cfg, probes) ==
    IF provider # "nvidia" /\ ~isConfigured(provider, cfg)
    THEN Unavailable(provider, "not configured")
    ELSE IF \E k \in 1..healthEndpoints(provider) : probes[k] = "neterr"
    THEN [kind |-> "thrown", status |-> "", provider |-> provider,
          message |-> "connect failed", model |-> ""]
    ELSE IF \E k \in 1..healthEndpoints(provider) :
                probes[k] \in {"ok200", "other200", "badjson200"}
    THEN Available(provider, "ok")
    ELSE Unavailable(provider, "HTTP error")

\* <Backend>AsrProvider.healthCheck; probes[k] is how the request to the
\* k-th endpoint ends
healthCheck(provider, cfg, probes) ==
    CASE provider = "nvidia" ->
            IF probes[1] = "neterr" THEN Unavailable(provider, "connect failed")
            ELSE IF probes[1] = "non200" THEN Unavailable(provider, "HTTP error")
            ELSE IF probes[1] = "badjson200"
            THEN Unavailable(provider, "Unexpected token")
            ELSE Available(provider,
                           IF probes[1] = "ok200" THEN "ok" ELSE "degraded")
      [] provider \in {"groq", "openai", "deepgram"} ->
            IF ~isConfigured(provider, cfg)
            THEN Unavailable(provider, "API key not configured")
            ELSE IF probes[1] = "neterr"
            THEN Unavailable(provider, "connect failed")
            ELSE IF probes[1] = "non200" THEN Unavailable(provider, "HTTP error")
            ELSE Available(provider, "ok")
      [] OTHER ->
            IF ~isConfigured(provider, cfg)
            THEN Unavailable(provider, "Base URL not configured")
            ELSE IF \E k \in 1..healthEndpoints(provider) :
                        probes[k] \in {"ok200", "other200", "badjson200"}
            THEN Available(provider, "ok")
            ELSE Unavailable(provider, "No health endpoint responded")

\* The cache is the Map `providers`: a function from the cached backend
\* identifiers to their instances.  An instance is identified by its rank
\* among the objects createProvider has constructed; n is the number
\* constructed so far.

\* variant: every call constructs a new instance
getProvider_uncached(cache, n, providerName) ==
    IF ~createProviderKnown(providerName)
    THEN [threw |-> TRUE, instance |-> 0, cache |-> cache, created |-> n]
    ELSE [threw |-> FALSE, instance |-> n + 1,
          cache |-> [x \in DOMAIN cache \cup {providerName} |->
                        IF x = providerName THEN n + 1 ELSE cache[x]],
          created |-> n + 1]

\* getProvider(providerName): the instance returned (or the throw of
\* createProvider), the cache and the number of instances afterwards
getProvider(cache, n, providerName) ==
    IF providerName \in DOMAIN cache
    THEN [threw |-> FALSE, instance |-> cache[providerName],
          cache |-> cache, created |-> n]
    ELSE IF ~createProviderKnown(providerName)
    THEN [threw |-> TRUE, instance |-> 0, cache |-> cache, created |-> n]
    ELSE [threw |-> FALSE, instance |-> n + 1,
          cache |-> [x \in DOMAIN cache \cup {providerName} |->
                        IF x = providerName THEN n + 1 ELSE cache[x]],
          created |-> n + 1]

\* providers.clear()
clearProviderCache(cache) == <<>>

(* ----------------------- providers/nvidia.ts --------------------------- *)

\* response.segments.reduce((sum, s) => sum + s.confidence, 0)
RECURSIVE totalConf(_)
totalConf(segments) ==
    IF segments = <<>> THEN 0
    ELSE Head(segments).confidence + totalConf(Tail(segments))

\* w => ({word, start: w.start_time, end: w.end_time, confidence})
asrWord(w) ==
    [word |-> w.word, start |-> w.start_time, end |-> w.end_time,
     confidence |-> w.confidence]

\* NvidiaAsrProvider.transformResponse: the provider-neutral result of a
\* 200 response.  The overall confidence is the reported one, or, when that
\* is falsy (absent or 0) and there are segments, the mean of the segments'
\* confidences.
transformResponse(response) ==
    LET reported == IF response.confidence.has THEN response.confidence.v ELSE 0
        given == IF response.segments.has THEN response.segments.v ELSE <<>>
        confidence ==
            IF reported = 0 /\ Len(given) > 0
            THEN [num |-> totalConf(given), den |-> Len(given)]
            ELSE [num |-> reported, den |-> 1]
        segments ==
            [i \in 1..Len(given) |->
                [text |-> given[i].text, start |-> given[i].start_time,
                 end |-> given[i].end_time, confidence |-> given[i].confidence,
                 speaker |-> given[i].speaker,
                 words |-> [has |-> given[i].words.has,
                            v |-> [k \in 1..Len(given[i].words.v) |->
                                      asrWord(given[i].words.v[k])]]]]
        words == [has |-> response.words.has,
                  v |-> [k \in 1..Len(response.words.v) |->
                            asrWord(response.words.v[k])]]
    IN  [text |-> response.text, confidence |-> confidence,
         segments |-> segments, words |-> words, provider |-> "nvidia",
         model |-> providerModel("nvidia")]

(* ------------------- services/audio-extractor.ts ----------------------- *)

\* variant: the size limit is not checked
extractLoopBody_unchecked(result, entry, outcome) ==
    IF ~isAudioDialog(entry.dialog)
    THEN [result EXCEPT !.skipped = Append(@, entry.index)]
    ELSE IF outcome.kind = "throw"
    THEN [result EXCEPT !.errors =
            Append(@, [dialogIndex |-> entry.index, error |-> "fetch failed"])]
    ELSE IF outcome.kind = "null"
    THEN [result EXCEPT !.errors =
            Append(@, [dialogIndex |-> entry.index,
                       error |-> "Failed to extract audio content"])]
    ELSE [result EXCEPT !.extracted =
            Append(@, [dialogIndex |-> entry.index,
                       buffer |-> [src |-> entry.index, len |-> outcome.len],
                       mediatype |-> entry.dialog.mediatype,
                       duration |-> entry.dialog.duration])]

\* one iteration of the loop of extractAudioFromDialogs over entry, given
\* how the extraction of that dialog ended
extractLoopBody(result, entry, outcome) ==
    IF ~isAudioDialog(entry.dialog)
    THEN [result EXCEPT !.skipped = Append(@, entry.index)]
    ELSE IF outcome.kind = "throw"
    THEN [result EXCEPT !.errors =
            Append(@, [dialogIndex |-> entry.index, error |-> "fetch failed"])]
    ELSE IF outcome.kind = "null"
    THEN [result EXCEPT !.errors =
            Append(@, [dialogIndex |-> entry.index,
                       error |-> "Failed to extract audio content"])]
    ELSE IF outcome.len > maxSizeBytes
    THEN [result EXCEPT !.errors =
            Append(@, [dialogIndex |-> entry.index,
                       error |-> "Audio exceeds maximum size"])]
    ELSE [result EXCEPT !.extracted =
            Append(@, [dialogIndex |-> entry.index,
                       buffer |-> [src |-> entry.index, len |-> outcome.len],
                       mediatype |-> entry.dialog.mediatype,
                       duration |-> entry.dialog.duration])]

(* -------------------- services/vcon-enricher.ts ------------------------ *)

\* /^[.,!?;:'"()-]$/.test(word)
isPunctuation(word) ==
    word \in {".", ",", "!", "?", ";", ":", "'", "\"", "(", ")", "-"}

\* parseInt(label, 10) on the speaker labels of the input universe: the
\* number a label starts with, NaN for a label that starts with no digit
parseInt10(label) ==
    CASE label = "0" -> [nan |-> FALSE, n |-> 0]
      [] label = "1" -> [nan |-> FALSE, n |-> 1]
      [] OTHER -> [nan |-> TRUE, n |-> 0]

\* seg.speaker ? parseInt(seg.speaker, 10) : undefined
speakerOf(seg) ==
    IF Truthy(seg.speaker)
    THEN [has |-> TRUE, v |-> parseInt10(seg.speaker)]
    ELSE [has |-> FALSE, v |-> [nan |-> FALSE, n |-> 0]]

\* the WtfWord pushed for the AsrWord w when wordId words precede it
wtfWord(w, wordId, speaker) ==
    [id |-> wordId, start |-> w.start, end |-> w.end, text |-> w.word,
     confidence |-> w.confidence, speaker |-> speaker,
     is_punctuation |-> isPunctuation(w.word)]

\* the loop over transcription.segments that pushes their nested words,
\* from segment i on, wordId words having been pushed
RECURSIVE segmentWords(_, _, _)
segmentWords(segments, i, wordId) ==
    IF i > Len(segments) THEN <<>>
    ELSE LET seg == segments[i]
             own == IF seg.words.has
                    THEN [k \in 1..Len(seg.words.v) |->
                            wtfWord(seg.words.v[k], wordId + k - 1, speakerOf(seg))]
                    ELSE <<>>
         IN  own \o segmentWords(segments, i + 1, wordId + Len(own))

\* variant: the ids of the nested words start at 1
buildWords_fromOne(transcription) ==
    IF transcription.words.has
    THEN [k \in 1..Len(transcription.words.v) |->
            wtfWord(transcription.words.v[k], k - 1,
                    [has |-> FALSE, v |-> [nan |-> FALSE, n |-> 0]])]
    ELSE segmentWords(transcription.segments, 1, 1)

\* "Build words array": the top-level words when the result has them (an
\* empty array included), else the words nested in the segments
buildWords(transcription) ==
    IF transcription.words.has
    THEN [k \in 1..Len(transcription.words.v) |->
            wtfWord(transcription.words.v[k], k - 1,
                    [has |-> FALSE, v |-> [nan |-> FALSE, n |-> 0]])]
    ELSE segmentWords(transcription.segments, 1, 0)

\* variant: a word belongs to every segment it overlaps
buildSegments_overlapping(transcription, words) ==
    [idx \in 1..Len(transcription.segments) |->
        LET seg == transcription.segments[idx]
            within(w) == w.end >= seg.start /\ w.start <= seg.end
            matching == SelectSeq(words, within)
            segmentWordIds == [k \in 1..Len(matching) |-> matching[k].id]
        IN  [id |-> idx - 1, start |-> seg.start, end |-> seg.end,
             text |-> seg.text, confidence |-> seg.confidence,
             speaker |-> speakerOf(seg),
             words |-> [has |-> Len(segmentWordIds) > 0, v |-> segmentWordIds]]]

\* "Build segments array": one record per provider segment, numbered by
\* position, listing the ids of the built words that lie within its span
buildSegments(transcription, words) ==
    [idx \in 1..Len(transcription.segments) |->
        LET seg == transcription.segments[idx]
            within(w) == w.start >= seg.start /\ w.end <= seg.end
            matching == SelectSeq(words, within)
            segmentWordIds == [k \in 1..Len(matching) |-> matching[k].id]
        IN  [id |-> idx - 1, start |-> seg.start, end |-> seg.end,
             text |-> seg.text, confidence |-> seg.confidence,
             speaker |-> speakerOf(seg),
             words |-> [has |-> Len(segmentWordIds) > 0, v |-> segmentWordIds]]]

\* String(seg.speaker) for the number parseInt returned
String(v) == IF v.nan THEN "NaN" ELSE ToString(v.n)

\* the loop over the built segments that fills speakerSegments and
\* speakerTimes, from segment i on; acc maps a speakerId to what both maps
\* hold for it
RECURSIVE speakerLoop(_, _, _)
speakerLoop(segments, i, acc) ==
    IF i > Len(segments) THEN acc
    ELSE LET seg == segments[i]
         IN  IF ~seg.speaker.has THEN speakerLoop(segments, i + 1, acc)
             ELSE LET speakerId == String(seg.speaker.v)
                      prev == IF speakerId \in DOMAIN acc THEN acc[speakerId]
                              ELSE [segments |-> <<>>, total_time |-> 0]
                      entry == [segments |-> Append(prev.segments, seg.id),
                                total_time |->
                                    prev.total_time + (seg.end - seg.start)]
                  IN  speakerLoop(segments, i + 1,
                          [k \in DOMAIN acc \cup {speakerId} |->
                              IF k = speakerId THEN entry ELSE acc[k]])

\* variant: every speaker gets every speaker-carrying segment
buildSpeakers_shared(segments) ==
    LET acc == speakerLoop(segments, 1, <<>>)
        carrying == SelectSeq(segments, LAMBDA seg : seg.speaker.has)
    IN  [speakerId \in DOMAIN acc |->
            [id |-> parseInt10(speakerId), label |-> <<"Speaker ", speakerId>>,
             segments |-> [k \in 1..Len(carrying) |-> carrying[k].id],
             total_time |-> acc[speakerId].total_time]]

\* "Build speakers map": one WtfSpeaker per key of speakerSegments
buildSpeakers(segments) ==
    LET acc == speakerLoop(segments, 1, <<>>)
    IN  [speakerId \in DOMAIN acc |->
            [id |-> parseInt10(speakerId), label |-> <<"Speaker ", speakerId>>,
             segments |-> acc[speakerId].segments,
             total_time |-> acc[speakerId].total_time]]

\* "Calculate quality metrics"; confidences are in tenths, so 0.7 is 7
buildQuality(transcription, words, speakers) ==
    LET lowConfidenceWords ==
            Cardinality({k \in 1..Len(words) : words[k].confidence < 7})
    IN  [average_confidence |-> transcription.confidence,
         low_confidence_words |-> lowConfidenceWords,
         multiple_speakers |-> Cardinality(DOMAIN speakers) > 1,
         processing_warnings |->
             IF lowConfidenceWords * 10 > Len(words)
             THEN <<"High number of low-confidence words">> ELSE <<>>]

\* audioDuration ? {duration: audioDuration} : undefined
audioOf(audioDuration) ==
    IF audioDuration # -1 /\ audioDuration # 0
    THEN [has |-> TRUE, duration |-> audioDuration]
    ELSE [has |-> FALSE, duration |-> 0]

\* the record built from one provider result: the transcript, the segments,
\* the metadata, the words and the speakers (both undefined when there are
\* none) and the quality metrics
createWtfTranscription(input) ==
    LET words == buildWords(input.transcription)
        segments == buildSegments(input.transcription, words)
        speakers == buildSpeakers(segments)
    IN  [transcript |-> [text |-> input.transcription.text,
                         confidence |-> input.transcription.confidence],
         segments |-> segments,
         metadata |-> [provider |-> input.provider, model |-> input.model,
                       audio |-> audioOf(input.audioDuration)],
         words |-> [has |-> Len(words) > 0, v |-> words],
         speakers |-> [has |-> Cardinality(DOMAIN speakers) > 0, v |-> speakers],
         quality |-> buildQuality(input.transcription, words, speakers)]

\* variant: vendor and product are exchanged
createWtfAnalysis_vendorProduct(dialogIndex, wtf, provider, model) ==
    [type |-> "wtf_transcription", dialog |-> dialogIndex,
     mediatype |-> "application/json",
     vendor |-> IF model = "" THEN provider ELSE model,
     product |-> provider, schema |-> "wtf-1.0", body |-> wtf,
     encoding |-> "json"]

createWtfAnalysis(dialogIndex, wtf, provider, model) ==
    [type |-> "wtf_transcription", dialog |-> dialogIndex,
     mediatype |-> "application/json", vendor |-> provider,
     product |-> IF model = "" THEN provider ELSE model, schema |-> "wtf-1.0", body |-> wtf,
     encoding |-> "json"]

enrichVconWithTranscriptions(vcon, enrichments) ==
    LET newAnalyses ==
            [k \in 1..Len(enrichments) |->
                createWtfAnalysis(enrichments[k].dialogIndex,
                                  createWtfTranscription(enrichments[k]),
                                  enrichments[k].provider,
                                  enrichments[k].model)]
    IN  [vcon EXCEPT !.updated_at = "now",
                     !.analysis = [has |-> TRUE, v |-> vcon.analysis.v \o newAnalyses]]

(* ---------------------- providers/base.ts ------------------------------ *)

\* an AsrTranscribeResult without timing data; confidence is a fraction in
\* tenths (num / den)
AsrResult(text, provider, model) ==
    [text |-> text, provider |-> provider, model |-> model,
     confidence |-> [num |-> 0, den |-> 1],
     segments |-> <<>>, words |-> [has |-> FALSE, v |-> <<>>]]

\* what one transcribe call can end in: the provider-neutral result of the
\* audio it was sent, or a thrown error
transcribeOutcomes(provider, request) ==
    {[st |-> "ok", error |-> "",
      res |-> AsrResult(request.audioBuffer.src, provider,
                        providerModel(provider))]}
    \cup
    {[st |-> "error", error |-> e, res |-> AsrResult(-1, provider, "")] :
        e \in BackendErrors}

\* the state of a call as Promise.all sees it
callState(outcome) ==
    [st |-> outcome.st, res |-> outcome.res]


\* variant: a rejected call does not reject the batch (its empty result is
\* kept, as createErrorResult would build it)
transcribeBatchState_swallow(calls) ==
    IF \A k \in 1..Len(calls) : calls[k].st # "pending" THEN "fulfilled"
    ELSE "pending"

\* Promise.all of transcribeBatch: fulfilled once every call is fulfilled,
\* rejected as soon as one call is rejected, pending otherwise
transcribeBatchState(calls) ==
    IF \E k \in 1..Len(calls) : calls[k].st = "error" THEN "rejected"
    ELSE IF \A k \in 1..Len(calls) : calls[k].st = "ok" THEN "fulfilled"
    ELSE "pending"


\* variant: the results come back in reverse request order
transcribeBatchResults_reversed(calls, completed) ==
    [k \in 1..Len(calls) |-> calls[Len(calls) + 1 - k].res]

\* variant: results collected in the order the calls complete
transcribeBatchResults_completionOrder(calls, completed) ==
    [k \in 1..Len(calls) |-> calls[completed[k]].res]

\* the array transcribeBatch resolves to: one result per request, at the
\* request's position, whatever the order of completion
transcribeBatchResults(calls, completed) ==
    [k \in 1..Len(calls) |-> calls[k].res]

(* ----------------------------- state ----------------------------------- *)

VARIABLES
    config,      \* the process configuration
    providers,   \* the provider cache of providers/index.ts
    created,     \* the number of provider instances constructed so far
    registryLog, \* history: the getProvider and clearProviderCache calls
    phase,       \* "idle", "running" (handler suspended), "replied"
    req,         \* the request: kind, documents, provider selector
    tasks,       \* one transcribeVcon call per document
    finished,    \* the documents in the order their calls settled
    reply,       \* the reply sent
    call,        \* a function called on its own: its name and argument
    ret          \* what that call returned

vars == <<config, providers, created, registryLog, phase, req, tasks,
          finished, reply, call, ret>>

(* ------------------- services/transcription.ts ------------------------- *)

NoResult == [kind |-> "none"]

\* a TranscriptionFailure; hasDetails is FALSE when details is undefined
Failure(error, hasDetails, details) ==
    [kind |-> "returned", success |-> FALSE, error |-> error,
     hasDetails |-> hasDetails, details |-> details]

\* a rejected promise
Thrown(error) == [kind |-> "thrown", error |-> error]

EmptyVcon ==
    [uuid |-> 0, dialog |-> [has |-> TRUE, v |-> <<>>],
     analysis |-> [has |-> TRUE, v |-> <<>>],
     attachments |-> [has |-> TRUE, v |-> <<>>], updated_at |-> "none"]

\* the locals of one transcribeVcon call; instance is the const `provider`,
\* checkedOn and dispatchedOn the instances whose isConfigured and
\* transcribeBatch were called (0: not called)
InitTask ==
    [pc |-> "init", provider |-> "none", instance |-> 0, checkedOn |-> 0,
     dispatchedOn |-> 0, vcon |-> EmptyVcon,
     audioDialogs |-> <<>>, k |-> 0,
     extraction |-> [extracted |-> <<>>, errors |-> <<>>, skipped |-> <<>>],
     calls |-> <<>>, completed |-> <<>>, fetches |-> 0, sent |-> 0,
     result |-> NoResult]

Done(t, result) == [t EXCEPT !.pc = "done", !.result = result]

\* options?.provider ?? config.asrProvider
resolveProviderName(optProvider, cfg) ==
    IF optProvider = "none" THEN cfg.asrProvider ELSE optProvider

\* transcribeVcon from its entry up to the call of extractAudioFromDialogs;
\* got is what getProvider(providerName) returned
transcribeVconStart(input, optProvider, cfg, got) ==
    LET providerName == resolveProviderName(optProvider, cfg)
        t == [InitTask EXCEPT !.provider = providerName,
                              !.instance = got.instance,
                              !.checkedOn = got.instance]
    IN  IF got.threw
        THEN Done(InitTask, Thrown("Unknown ASR provider"))
        ELSE IF ~isConfigured(providerName, cfg)
        THEN Done(t, Failure("ASR provider is not configured", FALSE, <<>>))
        ELSE LET parseResult == parseVcon(input)
             IN  IF ~parseResult.success
                 THEN Done(t, Failure(parseResult.error, TRUE, parseResult.details))
                 ELSE IF Len(parseResult.audioDialogs) = 0
                 THEN Done([t EXCEPT !.vcon = parseResult.vcon],
                           Failure("No audio dialogs found in VCON", FALSE, <<>>))
                 ELSE [t EXCEPT !.pc = "extract",
                                !.vcon = parseResult.vcon,
                                !.audioDialogs = parseResult.audioDialogs]


\* variant: the path names the position in the error list
extractionDetails_position(errors) ==
    [j \in 1..Len(errors) |->
        [path |-> <<"dialog[]", j - 1>>, message |-> errors[j].error]]

\* extraction.errors.map(e => ({path: `dialog[${e.dialogIndex}]`, message}))
extractionDetails(errors) ==
    [j \in 1..Len(errors) |->
        [path |-> <<"dialog[]", errors[j].dialogIndex>>,
         message |-> errors[j].error]]

\* extraction.extracted.map(audio => ({audio, request}))
transcribeRequests(extracted) ==
    [j \in 1..Len(extracted) |->
        [audio |-> extracted[j],
         request |-> [audioBuffer |-> extracted[j].buffer,
                      mediatype |-> extracted[j].mediatype]]]

\* variant: the batch is dispatched on the instance the registry holds at
\* that time
transcribeVconDispatch_reread(t) ==
    IF Len(t.extraction.extracted) = 0
    THEN Done(t, Failure("Failed to extract audio from any dialog", TRUE,
                         extractionDetails(t.extraction.errors)))
    ELSE [t EXCEPT !.pc = "await",
                   !.dispatchedOn = IF t.provider \in DOMAIN providers
                                    THEN providers[t.provider] ELSE created + 1,
                   !.sent = Len(t.extraction.extracted),
                   !.calls = [j \in 1..Len(t.extraction.extracted) |->
                                [st |-> "pending",
                                 res |-> AsrResult(-1, t.provider, "")]]]

\* transcribeVcon after extractAudioFromDialogs has returned: the
\* nothing-extracted failure, or the dispatch of the batch
transcribeVconDispatch(t) ==
    IF Len(t.extraction.extracted) = 0
    THEN Done(t, Failure("Failed to extract audio from any dialog", TRUE,
                         extractionDetails(t.extraction.errors)))
    ELSE [t EXCEPT !.pc = "await",
                   !.dispatchedOn = t.instance,
                   !.sent = Len(t.extraction.extracted),
                   !.calls = [j \in 1..Len(t.extraction.extracted) |->
                                [st |-> "pending",
                                 res |-> AsrResult(-1, t.provider, "")]]]

\* transcribeVcon after transcribeBatch has resolved: enrich, merge, stats
transcribeVconFinish(t) ==
    LET reqs == transcribeRequests(t.extraction.extracted)
        batchResults == transcribeBatchResults(t.calls, t.completed)
        transcriptionResults ==
            [i \in 1..Len(reqs) |->
                [audio |-> reqs[i].audio, result |-> batchResults[i]]]
        enrichments ==
            [i \in 1..Len(transcriptionResults) |->
                [dialogIndex |-> transcriptionResults[i].audio.dialogIndex,
                 transcription |-> transcriptionResults[i].result,
                 provider |-> transcriptionResults[i].result.provider,
                 model |-> transcriptionResults[i].result.model,
                 audioDuration |-> transcriptionResults[i].audio.duration]]
        enrichedVcon == enrichVconWithTranscriptions(t.vcon, enrichments)
    IN  Done(t, [kind |-> "returned", success |-> TRUE, vcon |-> enrichedVcon,
                 stats |-> [dialogsProcessed |-> Len(transcriptionResults),
                            dialogsSkipped |-> Len(t.extraction.skipped),
                            dialogsFailed |-> Len(t.extraction.errors),
                            provider |-> t.provider,
                            model |-> transcriptionResults[1].result.model]])

\* the continuation of transcribeVcon on a settled transcribeBatch: a
\* rejection propagates out of transcribeVcon (there is no catch)
transcribeVconSettle(t, firstError) ==
    CASE transcribeBatchState(t.calls) = "rejected" -> Done(t, Thrown(firstError))
      [] transcribeBatchState(t.calls) = "fulfilled" -> transcribeVconFinish(t)
      [] OTHER -> t


\* variant: only an unavailable backend is unhealthy
checkHealth_degradedHealthy(cache, n, cfg, probes) ==
    LET providerName == cfg.asrProvider
        got == getProvider(cache, n, providerName)
        health == healthCheck(providerName, cfg, probes)
    IN  [kind |-> IF got.threw THEN "thrown" ELSE health.kind,
         got |-> got, health |-> health,
         healthy |-> health.status # "unavailable",
         providers |-> [name |-> providerName, status |-> health.status,
                        model |-> health.model]]

\* checkHealth: the default backend's instance, its health status and the
\* summary the readiness route reads
checkHealth(cache, n, cfg, probes) ==
    LET providerName == cfg.asrProvider
        got == getProvider(cache, n, providerName)
        health == healthCheck(providerName, cfg, probes)
    IN  [kind |-> IF got.threw THEN "thrown" ELSE health.kind,
         got |-> got, health |-> health,
         healthy |-> health.status = "ok",
         providers |-> [name |-> providerName, status |-> health.status,
                        model |-> health.model]]

(* ------------------ routes/transcribe.ts, server.ts -------------------- *)

NoReply == [status |-> -1]

\* the global error handler of server.ts for an error without .validation
internalError == [status |-> 500, error |-> "Internal server error"]

\* the global error handler of server.ts for a request the route schema
\* rejects (a provider outside the enum of the querystring schema)
validationError == [status |-> 400, error |-> "Validation error"]

\* GET /health
liveReply == [status |-> 200, body |-> "ok"]

\* GET /health/ready for what checkHealth returned; body is the status
\* field of the response
readyReply(health) ==
    IF health.kind = "thrown" THEN internalError
    ELSE [status |-> IF health.healthy THEN 200 ELSE 503,
          body |-> IF health.healthy THEN "ok" ELSE "degraded",
          services |-> health.providers]

\* isValidationError ? 400 : 422
failureStatusCode(result) ==
    IF result.hasDetails /\ Len(result.details) > 0 THEN 400 ELSE 422

\* POST /transcribe: the reply for a settled transcribeVcon
transcribeReply(result) ==
    IF result.kind = "thrown" THEN internalError
    ELSE IF ~result.success
    THEN [status |-> failureStatusCode(result), error |-> result.error,
          hasDetails |-> result.hasDetails, details |-> result.details]
    ELSE [status |-> 200, vcon |-> result.vcon, stats |-> result.stats]

\* POST /transcribe/batch: the record of one settled document
batchRecord(result) ==
    IF result.success
    THEN [success |-> TRUE, vcon |-> result.vcon]
    ELSE [success |-> FALSE, error |-> result.error,
          hasDetails |-> result.hasDetails, details |-> result.details]


\* variant: records collected in the order the documents settle
batchResults_completionOrder(ts, done) ==
    [i \in 1..Len(ts) |-> batchRecord(ts[done[i]].result)]

\* the array Promise.all resolves to in the batch handler: document i's
\* record at position i, whatever the order of completion
batchResults(ts, done) == [i \in 1..Len(ts) |-> batchRecord(ts[i].result)]

\* POST /transcribe/batch: the reply once every document has settled
batchReply(ts, done, optProvider) ==
    LET results == batchResults(ts, done)
        succeeded == Cardinality({i \in 1..Len(results) : results[i].success})
        failed == Len(results) - succeeded
    IN  [status |-> 200, results |-> results,
         summary |-> [total |-> Len(results), succeeded |-> succeeded,
                      failed |-> failed,
                      provider |-> IF optProvider = "none" THEN "nvidia"
                                   ELSE optProvider]]

\* the reply of the handler given the tasks' states: a direct call of
\* transcribeVcon has no reply (status 0 marks its settled promise)
routeReply(kind, ts, done, optProvider) ==
    CASE kind = "call" ->
            IF ts[1].pc = "done" THEN [status |-> 0] ELSE NoReply
      [] kind = "single" ->
            IF ts[1].pc = "done" THEN transcribeReply(ts[1].result) ELSE NoReply
      [] OTHER ->
            IF \E i \in 1..Len(ts) : ts[i].result.kind = "thrown"
            THEN internalError
            ELSE IF \A i \in 1..Len(ts) : ts[i].pc = "done"
            THEN batchReply(ts, done, optProvider)
            ELSE NoReply

(* --------------------------- transitions ------------------------------- *)


\* no request yet; provider and model are the selectors of the query string
NoReq == [kind |-> "none", docs |-> <<>>, provider |-> "none",
          model |-> "none"]

\* module load: config is parsed and defaultProvider = getProvider()
NoCall == [fn |-> "none", arg |-> <<>>]
NoRet == [kind |-> "none"]

\* an entry of the history of the registry
GetEntry(providerName, got) ==
    [op |-> "get", name |-> providerName, threw |-> got.threw,
     instance |-> got.instance, during |-> 0]
\* during: how many transcribeVcon calls were between their getProvider and
\* their dispatch when the cache was cleared
ClearEntry(n) ==
    [op |-> "clear", name |-> "", threw |-> FALSE, instance |-> 0,
     during |-> n]

\* the pipeline at rest, after module load: config is parsed and
\* defaultProvider = getProvider()
InitServer(cfgs) ==
    /\ config \in cfgs
    /\ LET got == getProvider(<<>>, 0, config.asrProvider)
       IN  /\ providers = got.cache
           /\ created = got.created
           /\ registryLog = <<GetEntry(config.asrProvider, got)>>
    /\ phase = "idle"
    /\ req = NoReq
    /\ tasks = <<>>
    /\ finished = <<>>
    /\ reply = NoReply

Init ==
    /\ InitServer(Configs)
    /\ call = NoCall
    /\ ret = NoRet

\* the tasks that settled in this step, in index order
RECURSIVE NewlyDone(_, _, _)
NewlyDone(old, new, i) ==
    IF i > Len(new) THEN <<>>
    ELSE (IF new[i].pc = "done" /\ (i > Len(old) \/ old[i].pc # "done")
          THEN <<i>> ELSE <<>>)
         \o NewlyDone(old, new, i + 1)

\* install the new task states and send the reply if the handler's promise
\* settled
Advance(kind, optProvider, newTasks) ==
    LET done == finished \o NewlyDone(tasks, newTasks, 1)
        r == routeReply(kind, newTasks, done, optProvider)
    IN  /\ tasks' = newTasks
        /\ finished' = done
        /\ IF phase = "replied" \/ r = NoReply
           THEN /\ reply' = reply
                /\ phase' = IF phase = "replied" THEN "replied" ELSE "running"
           ELSE /\ reply' = r
                /\ phase' = "replied"

\* A request arrives and its handler runs to its first suspension: every
\* document's transcribeVcon is called in turn and runs up to its call of
\* extractAudioFromDialogs.  The routes only pass a provider of the schema's
\* enum; a direct call ("call") stands for a caller that passes another one
\* (with a provider of the enum it behaves as the call the route makes).
\* The model selector is part of the options handed to transcribeVcon, which
\* only logs it.
Receive(kind, docs, optProvider, optModel) ==
    /\ phase = "idle"
    /\ (kind = "call") <=> (optProvider = "bogus")
    /\ req' = [kind |-> kind, docs |-> docs, provider |-> optProvider,
               model |-> optModel]
    /\ LET providerName == resolveProviderName(optProvider, config)
           got == getProvider(providers, created, providerName)
       IN  IF Len(docs) = 0
           THEN /\ UNCHANGED <<providers, created, registryLog>>
                /\ Advance(kind, optProvider, <<>>)
           ELSE /\ providers' = got.cache
                /\ created' = got.created
                /\ registryLog' =
                       registryLog \o
                       [i \in 1..Len(docs) |->
                            GetEntry(providerName,
                                     IF i = 1 THEN got
                                     ELSE getProvider(got.cache, got.created,
                                                      providerName))]
                /\ Advance(kind, optProvider,
                       [i \in 1..Len(docs) |->
                            transcribeVconStart(
                                docs[i], optProvider, config,
                                IF i = 1 THEN got
                                ELSE getProvider(got.cache, got.created,
                                                 providerName))])
    /\ UNCHANGED <<config, call, ret>>

\* A route request whose provider selector is outside the schema's enum is
\* answered by the error handler; the handler does not run.
RejectQuery(kind, docs) ==
    /\ phase = "idle"
    /\ kind # "call"
    /\ req' = [kind |-> kind, docs |-> docs, provider |-> "bogus",
               model |-> "none"]
    /\ reply' = validationError
    /\ phase' = "replied"
    /\ tasks' = <<>>
    /\ UNCHANGED <<config, providers, created, registryLog, finished, call, ret>>

\* One iteration of the loop of extractAudioFromDialogs for document i;
\* after the last one transcribeVcon continues to the dispatch.
ExtractStep(i) ==
    /\ phase # "idle"
    /\ i \in 1..Len(tasks)
    /\ tasks[i].pc = "extract"
    /\ LET t == tasks[i]
           entry == t.audioDialogs[t.k + 1]
       IN  \E outcome \in extractAudioFromDialog(entry.dialog) :
              LET t1 == [t EXCEPT
                            !.extraction = extractLoopBody(@, entry, outcome),
                            !.k = @ + 1,
                            !.fetches = @ + (IF outcome.net THEN 1 ELSE 0)]
                  t2 == IF t1.k = Len(t1.audioDialogs)
                        THEN transcribeVconDispatch(t1) ELSE t1
              IN  Advance(req.kind, req.provider, [tasks EXCEPT ![i] = t2])
    /\ UNCHANGED <<config, providers, created, registryLog, req, call, ret>>

\* Backend call k of document i completes; if that settles transcribeBatch
\* the document's transcribeVcon continues to its end.
TranscribeComplete(i, k) ==
    /\ phase # "idle"
    /\ i \in 1..Len(tasks)
    /\ k \in 1..Len(tasks[i].calls)
    /\ tasks[i].calls[k].st = "pending"
    /\ LET t == tasks[i]
           request == transcribeRequests(t.extraction.extracted)[k].request
       IN  \E outcome \in transcribeOutcomes(t.provider, request) :
              LET t1 == [t EXCEPT !.calls[k] = callState(outcome),
                                  !.completed = Append(@, k)]
                  t2 == IF t.pc = "await"
                        THEN transcribeVconSettle(t1, outcome.error) ELSE t1
              IN  Advance(req.kind, req.provider, [tasks EXCEPT ![i] = t2])
    /\ UNCHANGED <<config, providers, created, registryLog, req, call, ret>>

\* the requests the model draws from
Requests(kind) ==
    IF kind = "batch"
    THEN UNION {BatchSeqs(1, n) : n \in 0..MaxDocs}
    ELSE {<<d>> : d \in SingleDocs}

ReceiveRequest ==
    /\ phase = "idle"
    /\ \E kind \in {"call", "single", "batch"}, optProvider \in ProviderChoices :
          \E docs \in Requests(kind) : Receive(kind, docs, optProvider, "none")

RejectRequest ==
    /\ phase = "idle"
    /\ \E kind \in {"single", "batch"} :
          \E docs \in Requests(kind) : RejectQuery(kind, docs)

Next ==
    \/ ReceiveRequest
    \/ RejectRequest
    \/ \E i \in 1..MaxDocs : ExtractStep(i)
    \/ \E i \in 1..MaxDocs, k \in 1..MaxDialogs : TranscribeComplete(i, k)

Spec == Init /\ [][Next]_vars

(* ------------------- the registry called directly ---------------------- *)

\* Some caller (a test, the health service) calls getProvider(optName).
GetProviderCall(optName) ==
    /\ Len(registryLog) <= MaxRegistryOps
    /\ LET providerName == resolveProviderName(optName, config)
           got == getProvider(providers, created, providerName)
       IN  /\ providers' = got.cache
           /\ created' = got.created
           /\ registryLog' = Append(registryLog, GetEntry(providerName, got))
    /\ UNCHANGED <<config, phase, req, tasks, finished, reply, call, ret>>

\* Some caller calls clearProviderCache(), at any time.
ClearProviderCacheCall ==
    /\ Len(registryLog) <= MaxRegistryOps
    /\ providers' = clearProviderCache(providers)
    /\ registryLog' =
           Append(registryLog,
                  ClearEntry(Cardinality({i \in 1..Len(tasks) :
                                             tasks[i].pc = "extract"})))
    /\ UNCHANGED <<config, created, phase, req, tasks, finished, reply, call, ret>>

\* the documents sent while the registry is called directly: valid, with
\* extractable audio
RegistryDocs ==
    {[uuid |-> 1, dialog |-> [has |-> TRUE, v |-> dl],
      analysis |-> [has |-> FALSE, v |-> <<>>],
      attachments |-> [has |-> FALSE, v |-> <<>>], updated_at |-> "none"] :
        dl \in {<<InlineAudio>>, <<UrlAudio, InlineAudio>>}}

ReceiveRegistryRequest ==
    /\ phase = "idle"
    /\ \E optProvider \in {"none", "groq"}, d \in RegistryDocs :
          Receive("single", <<d>>, optProvider, "none")

GetProviderRequest ==
    \E optName \in ProviderChoices : GetProviderCall(optName)

RegistryNext ==
    \/ ReceiveRegistryRequest
    \/ GetProviderRequest
    \/ ClearProviderCacheCall
    \/ \E i \in 1..MaxDocs : ExtractStep(i)
    \/ \E i \in 1..MaxDocs, k \in 1..MaxDialogs : TranscribeComplete(i, k)

RegistrySpec == Init /\ [][RegistryNext]_vars

(* ------------------ requests with a model selector --------------------- *)

\* A route request carries ?model= besides ?provider=; the documents are
\* valid and hold extractable audio.

SelectorRequests(kind) ==
    IF kind = "batch"
    THEN {<<d, e>> : d \in RegistryDocs, e \in RegistryDocs}
    ELSE {<<d>> : d \in RegistryDocs}

ReceiveSelectorRequest ==
    /\ phase = "idle"
    /\ \E kind \in {"single", "batch"}, optProvider \in {"none", "groq"},
          optModel \in ModelChoices :
          \E docs \in SelectorRequests(kind) :
              Receive(kind, docs, optProvider, optModel)

SelectorNext ==
    \/ ReceiveSelectorRequest
    \/ \E i \in 1..MaxDocs : ExtractStep(i)
    \/ \E i \in 1..MaxDocs, k \in 1..MaxDialogs : TranscribeComplete(i, k)

SelectorSpec == Init /\ [][SelectorNext]_vars

(* -------------------- the pure functions on their own ------------------ *)

\* A function is applied to an argument drawn at the start; ret is the
\* sequence of the values returned so far.

FnDialog(type, mediatype, body) ==
    [type |-> type, mediatype |-> mediatype, body |-> body, bodyLen |-> 0,
     url |-> FALSE, duration |-> -1]

\* dialogs of every type with absent, empty, whitelisted, differently cased
\* and non-audio media types and absent, empty and non-empty bodies
FnDialogs ==
    {FnDialog(type, mediatype, body) :
        type \in {"recording", "text", "transfer"},
        mediatype \in {"none", "audio/wav", "AUDIO/WAV", "video/mp4"},
        body \in {"none", "", "data"}}

\* documents: uuid well-formed or not, the dialog array absent or of up to
\* MaxFnDialogs dialogs, analysis and attachments both absent or both present
FnDocs ==
    {[uuid |-> u, dialog |-> dl, analysis |-> c.an, attachments |-> c.at,
      updated_at |-> "none"] :
        u \in {0, 1},
        dl \in {[has |-> FALSE, v |-> <<>>]} \cup
               {[has |-> TRUE, v |-> q] : q \in SeqsUpTo(FnDialogs, MaxFnDialogs)},
        c \in {[an |-> [has |-> FALSE, v |-> <<>>], at |-> [has |-> FALSE, v |-> <<>>]],
               [an |-> [has |-> TRUE, v |-> <<PreAnalysis(1)>>],
                at |-> [has |-> TRUE, v |-> <<"attachment">>]]}}

\* AsrWords: a word and a punctuation token
AsrWords ==
    {[word |-> "hi", start |-> 0, end |-> 1, confidence |-> 9],
     [word |-> ".", start |-> 1, end |-> 2, confidence |-> 5]}

\* AsrSegments: without a speaker label, with an empty and with a numeric
\* one; without nested words or with up to MaxSegWords of them
AsrSegments ==
    {[text |-> "hi.", start |-> 0, end |-> 2, confidence |-> 8,
      speaker |-> label, words |-> ws] :
        label \in {"none", "", "1"},
        ws \in {[has |-> FALSE, v |-> <<>>]} \cup
               {[has |-> TRUE, v |-> q] : q \in SeqsUpTo(AsrWords, MaxSegWords)}}

\* EnrichmentInputs: results of up to MaxSegments segments, without
\* top-level words or with one
EnrichmentInputs ==
    {[dialogIndex |-> 0,
      transcription |->
          [AsrResult("hi.", "nvidia", "parakeet-tdt-1.1b") EXCEPT
              !.segments = segs, !.words = tw],
      provider |-> "nvidia", model |-> "parakeet-tdt-1.1b",
      audioDuration |-> 5] :
        segs \in SeqsUpTo(AsrSegments, MaxSegments),
        tw \in {[has |-> FALSE, v |-> <<>>],
                [has |-> TRUE,
                 v |-> <<[word |-> "hi", start |-> 0, end |-> 1,
                          confidence |-> 9]>>]}}

\* the nested words of the segments, in segment order then in-segment order
RECURSIVE NestedWords(_)
NestedWords(segments) ==
    IF segments = <<>> THEN <<>>
    ELSE (IF Head(segments).words.has THEN Head(segments).words.v ELSE <<>>)
         \o NestedWords(Tail(segments))

\* the same input with the nested words supplied as top-level words
PreFlattened(input) ==
    [input EXCEPT !.transcription.words =
        [has |-> TRUE, v |-> NestedWords(input.transcription.segments)]]

FnInit ==
    /\ InitServer({ConfigOf("nvidia", FALSE, FALSE, FALSE)})
    /\ call \in {[fn |-> "none", arg |-> d] : d \in FnDocs \cup EnrichmentInputs}
    /\ ret = <<>>

FnApply(fn, value) ==
    /\ call' = [call EXCEPT !.fn = fn]
    /\ ret' = Append(ret, value)
    /\ UNCHANGED <<config, providers, created, registryLog, phase, req, tasks,
                   finished, reply>>

\* parseVcon(input)
ParseVconCall ==
    /\ call.fn = "none"
    /\ call.arg \in FnDocs
    /\ FnApply("parseVcon", parseVcon(call.arg))

\* normalizeVcon(vcon) on a document the schema accepts
NormalizeVconCall ==
    /\ call.fn = "none"
    /\ call.arg \in FnDocs
    /\ VconIssues(call.arg) = <<>>
    /\ FnApply("normalizeVcon", normalizeVcon(call.arg))

\* normalizeVcon applied to what normalizeVcon returned
NormalizeVconAgain ==
    /\ call.fn = "normalizeVcon"
    /\ Len(ret) = 1
    /\ FnApply("normalizeVcon", normalizeVcon(ret[1]))

\* createWtfTranscription(input)
CreateWtfTranscriptionCall ==
    /\ call.fn = "none"
    /\ call.arg \in EnrichmentInputs
    /\ FnApply("createWtfTranscription", createWtfTranscription(call.arg))

\* createWtfTranscription on the same input with its nested words
\* pre-flattened
CreateWtfTranscriptionFlat ==
    /\ call.fn = "createWtfTranscription"
    /\ Len(ret) = 1
    /\ ~call.arg.transcription.words.has
    /\ FnApply("createWtfTranscription",
               createWtfTranscription(PreFlattened(call.arg)))

FnNext ==
    \/ ParseVconCall
    \/ NormalizeVconCall
    \/ NormalizeVconAgain
    \/ CreateWtfTranscriptionCall
    \/ CreateWtfTranscriptionFlat

FnSpec == FnInit /\ [][FnNext]_vars

(* ------------- a backend response through the enricher ----------------- *)

\* A 200 response of the NVIDIA backend is transformed into the
\* provider-neutral result, which transcribeVcon hands to the enricher
\* together with the duration the dialog declares.

NvWord(word, start_time, end_time, confidence) ==
    [word |-> word, start_time |-> start_time, end_time |-> end_time,
     confidence |-> confidence]

NvSegment(start_time, end_time, confidence, speaker, words) ==
    [text |-> "hi.", start_time |-> start_time, end_time |-> end_time,
     confidence |-> confidence, speaker |-> speaker, words |-> words]

NoWords == [has |-> FALSE, v |-> <<>>]

\* the segments a response is made of: unlabelled, with numeric and with
\* non-numeric speaker labels, with an empty label, with and without nested
\* words, of zero length, ending before its start, and with a confidence
\* above 1 (the response is not validated)
NvSegments ==
    {NvSegment(0, 2, 8, "none", NoWords),
     NvSegment(0, 2, 8, "0",
               [has |-> TRUE,
                v |-> <<NvWord("hi", 0, 1, 9), NvWord(".", 1, 2, 5)>>]),
     NvSegment(2, 5, 6, "1", NoWords),
     NvSegment(0, 2, 8, "A", NoWords),
     NvSegment(2, 5, 6, "B",
               [has |-> TRUE, v |-> <<NvWord("ok", 2, 4, 9)>>]),
     NvSegment(2, 2, 0, "", NoWords),
     NvSegment(3, 1, 8, "1", NoWords),
     NvSegment(0, 2, 15, "0", NoWords)}

\* top-level words: absent, an empty array, or three words of which the
\* second lies across two segments
NvWords ==
    {NoWords, [has |-> TRUE, v |-> <<>>],
     [has |-> TRUE,
      v |-> <<NvWord("hi", 0, 1, 9), NvWord("there", 1, 3, 6),
              NvWord(".", 4, 5, 5)>>]}

\* responses: overall confidence absent, 0 or 0.9; segments absent or up to
\* MaxNvSegments of them
NvidiaResponses ==
    {[text |-> "hi.", confidence |-> c, segments |-> s, words |-> w] :
        c \in {[has |-> FALSE, v |-> 0], [has |-> TRUE, v |-> 0],
               [has |-> TRUE, v |-> 9]},
        s \in {[has |-> FALSE, v |-> <<>>]} \cup
              {[has |-> TRUE, v |-> q] : q \in SeqsUpTo(NvSegments, MaxNvSegments)},
        w \in NvWords}

\* dialog.duration: absent, 0 or 5 seconds
AudioDurations == {-1, 0, 5}

ProviderInit ==
    /\ InitServer({ConfigOf("nvidia", FALSE, FALSE, FALSE)})
    /\ call \in {[fn |-> "none", arg |-> r] : r \in NvidiaResponses}
    /\ ret = <<>>

\* transformResponse(data, processingTime)
TransformResponseCall ==
    /\ call.fn = "none"
    /\ call.arg \in NvidiaResponses
    /\ FnApply("transformResponse", transformResponse(call.arg))

\* the enrichment transcribeVcon builds for that result and a dialog of the
\* given duration, handed to createWtfTranscription
EnrichResultCall(audioDuration) ==
    /\ call.fn = "transformResponse"
    /\ Len(ret) = 1
    /\ LET input == [dialogIndex |-> 0, transcription |-> ret[1],
                     provider |-> ret[1].provider, model |-> ret[1].model,
                     audioDuration |-> audioDuration]
       IN  /\ call' = [fn |-> "createWtfTranscription", arg |-> input]
           /\ ret' = Append(ret, createWtfTranscription(input))
    /\ UNCHANGED <<config, providers, created, registryLog, phase, req, tasks,
                   finished, reply>>

EnrichResult ==
    \E audioDuration \in AudioDurations : EnrichResultCall(audioDuration)

ProviderNext ==
    \/ TransformResponseCall
    \/ EnrichResult

ProviderSpec == ProviderInit /\ [][ProviderNext]_vars

(* --------------- extractAudioFromDialogs called directly --------------- *)

\* extractAudioFromDialogs is called with a list of {index, dialog} entries
\* of any type (as its unit tests do); ret holds the loop's position, the
\* result under construction and, as history, how each extraction ended.

\* the entries of the dialogs q, numbered from first on
EntriesOf(q, first) ==
    [i \in 1..Len(q) |-> [index |-> first + i - 1, dialog |-> q[i]]]

ExtractInputs ==
    {EntriesOf(q, first) :
        q \in SeqsUpTo(DialogKinds, MaxExtractDialogs), first \in {0, 1}}

ExtractInit ==
    /\ InitServer({ConfigOf("nvidia", FALSE, FALSE, FALSE)})
    /\ call \in {[fn |-> "extractAudioFromDialogs", arg |-> e] :
                    e \in ExtractInputs}
    /\ ret = [k |-> 0, outcomes |-> <<>>,
              result |-> [extracted |-> <<>>, errors |-> <<>>, skipped |-> <<>>]]

\* one iteration of the loop over the entries
ExtractLoopStep ==
    /\ call.fn = "extractAudioFromDialogs"
    /\ ret.k < Len(call.arg)
    /\ LET entry == call.arg[ret.k + 1]
       IN  \E outcome \in extractAudioFromDialog(entry.dialog) :
              ret' = [k |-> ret.k + 1,
                      outcomes |-> Append(ret.outcomes, outcome),
                      result |-> extractLoopBody(ret.result, entry, outcome)]
    /\ UNCHANGED <<config, providers, created, registryLog, phase, req, tasks,
                   finished, reply, call>>

ExtractNext == ExtractLoopStep

ExtractSpec == ExtractInit /\ [][ExtractNext]_vars

(* --------------------------- health surface ---------------------------- *)

\* One health request, or one direct healthCheck call, is made and answered.

ProbeSeqs(n) == [1..n -> ProbeOutcomes]

CallOf(fn, provider, probes) ==
    [fn |-> fn, arg |-> [provider |-> provider, probes |-> probes]]

\* healthCheck() is called on an instance of one backend (as
\* checkAllProvidersHealth and the tests do); ret is what the call settles to
HealthCheckCall(provider, probes) ==
    /\ call = NoCall
    /\ call' = CallOf("healthCheck", provider, probes)
    /\ ret' = healthCheck(provider, config, probes)
    /\ reply' = NoReply
    /\ UNCHANGED <<config, providers, created, registryLog, phase, req, tasks,
                   finished>>

\* GET /health
Liveness ==
    /\ call = NoCall
    /\ call' = CallOf("GET /health", "none", <<>>)
    /\ ret' = NoRet
    /\ reply' = liveReply
    /\ UNCHANGED <<config, providers, created, registryLog, phase, req, tasks,
                   finished>>

\* GET /health/ready: the handler awaits checkHealth and replies; ret is
\* what the default backend's healthCheck settled to
Readiness(probes) ==
    /\ call = NoCall
    /\ LET health == checkHealth(providers, created, config, probes)
       IN  /\ call' = CallOf("GET /health/ready", config.asrProvider, probes)
           /\ ret' = health.health
           /\ reply' = readyReply(health)
           /\ providers' = health.got.cache
           /\ created' = health.got.created
           /\ registryLog' =
                  Append(registryLog, GetEntry(config.asrProvider, health.got))
    /\ UNCHANGED <<config, phase, req, tasks, finished>>

HealthInit ==
    /\ InitServer(HealthConfigs)
    /\ call = NoCall
    /\ ret = NoRet

HealthCheckRequest ==
    \E provider \in KnownProviders :
        \E probes \in ProbeSeqs(healthEndpoints(provider)) :
            HealthCheckCall(provider, probes)

ReadinessRequest ==
    \E probes \in ProbeSeqs(healthEndpoints(config.asrProvider)) :
        Readiness(probes)

HealthNext ==
    \/ HealthCheckRequest
    \/ Liveness
    \/ ReadinessRequest

HealthSpec == HealthInit /\ [][HealthNext]_vars

(* ------------------------- the properties ------------------------------ *)

\* Vocabulary of the properties, read off the request and the configuration
\* rather than off the pipeline's own operators.

TaskIds == 1..Len(tasks)

Succeeded(t) == t.result.kind = "returned" /\ t.result.success
Failed(t) == t.result.kind = "returned" /\ ~t.result.success

\* the dialog is audio-bearing: a recording with a whitelisted media type
AudioBearing(d) == d.type = "recording" /\ d.mediatype \in SUPPORTED_AUDIO_TYPES

\* the 0-based positions of the audio-bearing dialogs of a document
AudioIndices(doc) ==
    {j - 1 : j \in {m \in 1..Len(doc.dialog.v) : AudioBearing(doc.dialog.v[m])}}

\* the document passes structural validation
StructurallyValid(doc) ==
    /\ doc.uuid # 0
    /\ \A j \in 1..Len(doc.dialog.v) :
          LET d == doc.dialog.v[j]
          IN  ~(d.type \in {"recording", "text"} /\ d.body \notin {"none", ""}
                /\ d.mediatype = "none")

\* the backend the request resolves to is known and configured
BackendUsable ==
    LET name == IF req.provider = "none" THEN config.asrProvider ELSE req.provider
    IN  name = "nvidia" \/ (name = "groq" /\ config.groqApiKey)

OkCalls(t) == {k \in 1..Len(t.calls) : t.calls[k].st = "ok"}
ErrorCalls(t) == {k \in 1..Len(t.calls) : t.calls[k].st = "error"}

\* C1: whenever transcribeVcon returns success, the returned analysis array
\* is as long as the input's plus the number of dialogs whose audio was
\* extracted and transcribed successfully, and that number is
\* stats.dialogsProcessed.
C1_AnalysisLength ==
    \A i \in TaskIds :
        Succeeded(tasks[i]) =>
            /\ Len(tasks[i].result.vcon.analysis.v) =
                   Len(req.docs[i].analysis.v) + Cardinality(OkCalls(tasks[i]))
            /\ tasks[i].result.stats.dialogsProcessed = Cardinality(OkCalls(tasks[i]))

\* a success that left one dialog behind at extraction and kept two
\* pre-existing entries
C1_Witness ==
    \E i \in TaskIds :
        /\ Succeeded(tasks[i])
        /\ Len(tasks[i].extraction.errors) = 1
        /\ Len(req.docs[i].analysis.v) = 2
        /\ Len(tasks[i].result.vcon.analysis.v) = 3

\* C2: a backend error on one extracted dialog is that dialog's failure
\* only: once every call of the document has settled, at least one of them
\* with a transcription, the document is a success, not a thrown error; its
\* failed count includes the failed calls and its new analysis entries are
\* those of the transcribed dialogs.
C2_BackendErrorIsolated ==
    \A i \in TaskIds :
        LET t == tasks[i]
        IN  (/\ ErrorCalls(t) # {}
             /\ OkCalls(t) # {}
             /\ OkCalls(t) \cup ErrorCalls(t) = 1..Len(t.calls)) =>
                /\ t.result.kind # "thrown"
                /\ Succeeded(t)
                /\ t.result.stats.dialogsFailed =
                       Len(t.extraction.errors) + Cardinality(ErrorCalls(t))
                /\ Len(t.result.vcon.analysis.v) =
                       Len(req.docs[i].analysis.v) + Cardinality(OkCalls(t))

\* C3: in the batch call no document's pipeline ends in a thrown error, and
\* the response is the 200 response in which each failed document is its
\* own {success: false, error, details} record.
C3_BatchIsolation ==
    (req.kind = "batch" /\ req.provider # "bogus") =>
        /\ \A i \in TaskIds : tasks[i].result.kind # "thrown"
        /\ phase = "replied" =>
              /\ reply.status = 200
              /\ \A i \in TaskIds :
                    Failed(tasks[i]) =>
                        /\ ~reply.results[i].success
                        /\ reply.results[i].error = tasks[i].result.error

\* C4: in every batch response, results[i] is the outcome of input document
\* i, summary.total is the number of input documents, summary.succeeded the
\* number of successful results, and succeeded + failed = total.
C4_BatchAligned ==
    (req.kind = "batch" /\ phase = "replied" /\ reply.status = 200) =>
        /\ Len(reply.results) = Len(req.docs)
        /\ \A i \in 1..Len(req.docs) :
              /\ reply.results[i].success = Succeeded(tasks[i])
              /\ Succeeded(tasks[i]) =>
                    /\ reply.results[i].vcon = tasks[i].result.vcon
                    /\ reply.results[i].vcon.uuid = req.docs[i].uuid
              /\ Failed(tasks[i]) =>
                    /\ reply.results[i].error = tasks[i].result.error
                    /\ reply.results[i].details = tasks[i].result.details
        /\ reply.summary.total = Len(req.docs)
        /\ reply.summary.succeeded =
               Cardinality({i \in 1..Len(reply.results) : reply.results[i].success})
        /\ reply.summary.succeeded + reply.summary.failed = reply.summary.total

\* a batch of two whose second document settled first: the first succeeded,
\* the second failed
C4_Witness ==
    /\ req.kind = "batch"
    /\ phase = "replied"
    /\ reply.status = 200
    /\ finished = <<2, 1>>
    /\ reply.results[1].success
    /\ ~reply.results[2].success
    /\ reply.summary = [total |-> 2, succeeded |-> 1, failed |-> 1,
                        provider |-> "nvidia"]

\* what C5 promises of a task
NoAudioFailure(t) ==
    /\ Failed(t)
    /\ t.result.error = "No audio dialogs found in VCON"
    /\ ~t.result.hasDetails
    /\ t.k = 0
    /\ t.fetches = 0
    /\ t.sent = 0

\* C5 as stated: a structurally valid document without audio-bearing
\* dialogs ends in the "No audio dialogs" failure, without details, with no
\* extraction and no backend call.
C5_Original ==
    \A i \in TaskIds :
        (StructurallyValid(req.docs[i]) /\ AudioIndices(req.docs[i]) = {}) =>
            NoAudioFailure(tasks[i])

\* C5 as amended: the same when the backend the request resolves to is
\* known and configured.
C5_NoAudioDialogs ==
    \A i \in TaskIds :
        (BackendUsable /\ StructurallyValid(req.docs[i])
            /\ AudioIndices(req.docs[i]) = {}) =>
            NoAudioFailure(tasks[i])

\* a valid document whose dialogs are a text and a video recording
C5_Witness ==
    \E i \in TaskIds :
        /\ BackendUsable
        /\ req.docs[i].uuid # 0
        /\ req.docs[i].dialog.v = <<TextDialog, VideoRecording>>
        /\ NoAudioFailure(tasks[i])

\* C6: POST /transcribe answers a validation failure with 400 and a content
\* failure (no audio dialogs, nothing extractable) with 422.
C6_StatusTaxonomy ==
    (req.kind = "single" /\ phase = "replied" /\ Len(tasks) = 1
        /\ Failed(tasks[1])) =>
        /\ tasks[1].result.error = "Invalid VCON format" => reply.status = 400
        /\ tasks[1].result.error \in
                {"No audio dialogs found in VCON",
                 "Failed to extract audio from any dialog"} => reply.status = 422

\* C7: when extraction has run over every audio-bearing dialog and
\* extracted nothing, transcribeVcon ends in the extraction failure whose
\* details are one entry per audio-bearing dialog, each naming that dialog's
\* index, in ascending order.
C7_ExtractionFailure ==
    \A i \in TaskIds :
        LET t == tasks[i]
        IN  (t.k > 0 /\ t.k = Len(t.audioDialogs) /\ t.extraction.extracted = <<>>) =>
              /\ Failed(t)
              /\ t.result.error = "Failed to extract audio from any dialog"
              /\ t.result.hasDetails
              /\ Len(t.result.details) = Cardinality(AudioIndices(req.docs[i]))
              /\ {t.result.details[j].path : j \in 1..Len(t.result.details)} =
                     {<<"dialog[]", n>> : n \in AudioIndices(req.docs[i])}
              /\ \A j \in 1..Len(t.result.details) - 1 :
                     t.result.details[j].path[2] < t.result.details[j + 1].path[2]
              /\ t.sent = 0

\* a text dialog followed by a recording without content: one detail, for
\* index 1
C7_Witness ==
    \E i \in TaskIds :
        /\ req.docs[i].dialog.v = <<TextDialog, EmptyRecording>>
        /\ Failed(tasks[i])
        /\ tasks[i].result.details =
               <<[path |-> <<"dialog[]", 1>>,
                  message |-> "Failed to extract audio content"]>>

\* C8: when the backend the request resolves to is unknown or not
\* configured, the call is over at once, rejected, and has fetched no remote
\* audio and dispatched no backend call.
C8_RejectedBeforeNetwork ==
    (phase # "idle" /\ ~BackendUsable) =>
        \A i \in TaskIds :
            /\ tasks[i].pc = "done"
            /\ tasks[i].result.kind = "thrown" \/ Failed(tasks[i])
            /\ tasks[i].k = 0
            /\ tasks[i].fetches = 0
            /\ tasks[i].sent = 0

\* a valid document with a remote recording, sent to the unconfigured groq
C8_Witness ==
    /\ ~BackendUsable
    /\ req.provider = "groq"
    /\ Len(tasks) = 1
    /\ req.docs[1].uuid # 0
    /\ req.docs[1].dialog.v = <<UrlAudio>>
    /\ Failed(tasks[1])
    /\ tasks[1].fetches = 0

\* what C9 promises of a task
ValidationFailure(t) ==
    /\ Failed(t)
    /\ t.result.hasDetails
    /\ Len(t.result.details) > 0
    /\ \A j \in 1..Len(t.result.details) :
          t.result.details[j].path[1] \in {"uuid", "dialog"}

\* C9 as stated: every input that fails structural validation ends in the
\* failure that carries the non-empty list of validation details, whatever
\* the provider and its configuration.
C9_Original ==
    \A i \in TaskIds :
        ~StructurallyValid(req.docs[i]) => ValidationFailure(tasks[i])

\* C9 as amended: the same when the backend the request resolves to is
\* known and configured.
C9_ValidationFailure ==
    \A i \in TaskIds :
        (BackendUsable /\ ~StructurallyValid(req.docs[i])) =>
            ValidationFailure(tasks[i])

\* a document with a well-formed uuid whose second dialog is a recording
\* with a body and no media type
C9_Witness ==
    \E i \in TaskIds :
        /\ BackendUsable
        /\ req.docs[i].uuid # 0
        /\ req.docs[i].dialog.v = <<InlineAudio, UntypedRecording>>
        /\ ValidationFailure(tasks[i])
        /\ tasks[i].result.details[1].path = <<"dialog", 1>>

\* C10: on success the output analysis array is the input's entries,
\* unchanged and in order, followed by the new entries in strictly ascending
\* dialog-index order, each holding the transcript of its own dialog's
\* audio; updated_at is set and the parsed input is left as it was.
C10_MergeOrder ==
    \A i \in TaskIds :
        Succeeded(tasks[i]) =>
            LET out == tasks[i].result.vcon.analysis.v
                pre == req.docs[i].analysis.v
            IN  /\ Len(out) >= Len(pre)
                /\ \A j \in 1..Len(pre) : out[j] = pre[j]
                /\ \A j \in Len(pre) + 1..Len(out) :
                      /\ out[j].type = "wtf_transcription"
                      /\ out[j].dialog \in AudioIndices(req.docs[i])
                      /\ out[j].body.transcript.text = out[j].dialog
                /\ \A j \in Len(pre) + 1..Len(out) - 1 :
                      out[j].dialog < out[j + 1].dialog
                /\ tasks[i].result.vcon.updated_at = "now"
                /\ tasks[i].vcon.analysis.v = pre
                /\ tasks[i].vcon.updated_at = req.docs[i].updated_at

\* two dialogs transcribed, the second call completing first, onto two
\* pre-existing entries
C10_Witness ==
    \E i \in TaskIds :
        /\ Succeeded(tasks[i])
        /\ tasks[i].completed = <<2, 1>>
        /\ Len(req.docs[i].analysis.v) = 2
        /\ Len(tasks[i].result.vcon.analysis.v) = 4

\* the backend a request resolves to
ActiveBackend ==
    IF req.provider = "none" THEN config.asrProvider ELSE req.provider

\* the entries the pipeline added to document i's analysis array
AddedEntries(i) ==
    LET out == tasks[i].result.vcon.analysis.v
        n == Len(req.docs[i].analysis.v)
    IN  [j \in 1..Len(out) - n |-> out[n + j]]

\* C11: every analysis entry the pipeline adds has type "wtf_transcription",
\* schema "wtf-1.0", mediatype "application/json", encoding "json", dialog
\* the index of the dialog whose audio it transcribes, and vendor the
\* backend active for the request, which is also stats.provider.
C11_EntryFields ==
    \A i \in TaskIds :
        Succeeded(tasks[i]) =>
            /\ tasks[i].result.stats.provider = ActiveBackend
            /\ \A j \in 1..Len(AddedEntries(i)) :
                  LET e == AddedEntries(i)[j]
                  IN  /\ e.type = "wtf_transcription"
                      /\ e.schema = "wtf-1.0"
                      /\ e.mediatype = "application/json"
                      /\ e.encoding = "json"
                      /\ e.dialog \in AudioIndices(req.docs[i])
                      /\ e.dialog = e.body.transcript.text
                      /\ e.vendor = ActiveBackend
                      /\ e.vendor = tasks[i].result.stats.provider

\* the request selects nvidia while the default backend is groq, and the
\* document's audio is its second dialog
C11_Witness ==
    \E i \in TaskIds :
        /\ Succeeded(tasks[i])
        /\ config.asrProvider = "groq"
        /\ req.provider = "nvidia"
        /\ req.docs[i].dialog.v = <<TextDialog, InlineAudio>>
        /\ Len(AddedEntries(i)) = 1
        /\ AddedEntries(i)[1].vendor = "nvidia"
        /\ AddedEntries(i)[1].dialog = 1

\* the requests document i's transcribeVcon hands to transcribeBatch
BatchRequests(i) ==
    [k \in 1..Len(tasks[i].extraction.extracted) |->
        [audioBuffer |-> tasks[i].extraction.extracted[k].buffer,
         mediatype |-> tasks[i].extraction.extracted[k].mediatype]]

\* C12: transcribeBatch has every request in flight before any of them
\* completes, and once it resolves it returns one result per request,
\* results[k] being the transcription of requests[k]'s audio, whatever the
\* order in which the calls completed.
C12_BatchIndexAligned ==
    \A i \in TaskIds :
        LET t == tasks[i]
            results == transcribeBatchResults(t.calls, t.completed)
        IN  t.sent > 0 =>
              /\ Len(t.calls) = Len(BatchRequests(i))
              /\ t.sent = Len(BatchRequests(i))
              /\ t.completed = <<>> =>
                    \A k \in 1..Len(t.calls) : t.calls[k].st = "pending"
              /\ (\A k \in 1..Len(t.calls) : t.calls[k].st = "ok") =>
                    /\ Succeeded(t)
                    /\ Len(results) = Len(BatchRequests(i))
                    /\ \A k \in 1..Len(results) :
                          /\ results[k].text = BatchRequests(i)[k].audioBuffer.src
                          /\ AddedEntries(i)[k].body.transcript.text
                                = BatchRequests(i)[k].audioBuffer.src

\* two requests whose calls completed in reverse order
C12_Witness ==
    \E i \in TaskIds :
        /\ Len(tasks[i].calls) = 2
        /\ tasks[i].completed = <<2, 1>>
        /\ \A k \in 1..2 : tasks[i].calls[k].st = "ok"
        /\ BatchRequests(i)[1].audioBuffer.src # BatchRequests(i)[2].audioBuffer.src

\* the getProvider calls of the history that returned an instance
Gets == {i \in 1..Len(registryLog) :
            registryLog[i].op = "get" /\ ~registryLog[i].threw}

ClearBetween(i, j) ==
    \E c \in i + 1..j - 1 : registryLog[c].op = "clear"

\* C13: over any sequence of getProvider and clearProviderCache calls, two
\* getProvider calls for the same identifier with no clear between them
\* return the same instance; calls for different identifiers return
\* different instances; a call after a clear returns an instance different
\* from the ones returned for that identifier before the clear.
C13_RegistrySingleton ==
    \A i \in Gets, j \in Gets :
        i < j =>
            LET a == registryLog[i]
                b == registryLog[j]
            IN  /\ (a.name = b.name /\ ~ClearBetween(i, j)) =>
                       a.instance = b.instance
                /\ a.name # b.name => a.instance # b.instance
                /\ (a.name = b.name /\ ClearBetween(i, j)) =>
                       a.instance # b.instance

\* nvidia resolved, the cache cleared, nvidia resolved twice more
C13_Witness ==
    \E i \in Gets, j \in Gets, k \in Gets :
        /\ i < j /\ j < k
        /\ registryLog[i].name = "nvidia"
        /\ registryLog[j].name = "nvidia"
        /\ registryLog[k].name = "nvidia"
        /\ ClearBetween(i, j)
        /\ ~ClearBetween(j, k)
        /\ registryLog[i].instance # registryLog[j].instance
        /\ registryLog[j].instance = registryLog[k].instance

\* what C14 requires of one step
ClearSafeStep ==
    /\ (Len(registryLog') = Len(registryLog) + 1
            /\ registryLog'[Len(registryLog')].op = "clear") =>
          /\ tasks' = tasks
          /\ phase' = phase
          /\ finished' = finished
          /\ reply' = reply
    /\ \A i \in 1..Len(tasks') :
          LET t == tasks'[i]
          IN  /\ (i <= Len(tasks)) =>
                    /\ t.instance = tasks[i].instance
                    /\ t.checkedOn = tasks[i].checkedOn
              /\ (i > Len(tasks)) =>
                    t.instance = registryLog'[Len(registryLog')].instance
              /\ t.checkedOn = t.instance
              /\ t.dispatchedOn \in {0, t.instance}
              /\ t.sent > 0 => t.dispatchedOn = t.instance
              /\ (t.sent > 0 /\ \A k \in 1..Len(t.calls) : t.calls[k].st = "ok") =>
                    /\ Succeeded(t)
                    /\ Len(t.result.vcon.analysis.v) = Len(t.calls)

\* C14: clearProviderCache may run at any point while transcribeVcon calls
\* are in flight: a clear changes nothing of a call in flight, each call
\* keeps the instance it resolved at its start for its isConfigured check
\* and for its batch dispatch, and it completes as it does without a clear.
C14_ClearSafe == [][ClearSafeStep]_vars

\* a call that resolved its instance, saw the cache cleared before it had
\* dispatched, and succeeded on the instance the cache no longer holds
C14_Witness ==
    \E i \in TaskIds :
        /\ Succeeded(tasks[i])
        /\ \E c \in 1..Len(registryLog) :
              /\ registryLog[c].op = "clear"
              /\ registryLog[c].during = 1
        /\ tasks[i].dispatchedOn = tasks[i].instance
        /\ \A n \in DOMAIN providers : providers[n] # tasks[i].instance

\* the backend's credential is missing from the configuration
CredentialMissing(provider) ==
    \/ provider = "groq" /\ ~config.groqApiKey
    \/ provider = "openai" /\ ~config.openaiApiKey
    \/ provider = "deepgram" /\ ~config.deepgramApiKey

\* C15: for every backend, healthCheck settles to a status and never
\* throws: when every probe request fails (no response, or a status code
\* other than 200) or the credential is missing, the status is
\* "unavailable" with a message; the status is "ok" only when the
\* credential is present and a probe request was answered with 200.
C15_HealthNeverThrows ==
    (call.fn \in {"healthCheck", "GET /health/ready"}) =>
        /\ ret.kind = "returned"
        /\ ret.status \in {"ok", "degraded", "unavailable"}
        /\ ((\A k \in 1..Len(call.arg.probes) : call.arg.probes[k] \in {"neterr", "non200"})
                \/ CredentialMissing(call.arg.provider)) =>
              /\ ret.status = "unavailable"
              /\ ret.message # ""
        /\ ret.status = "ok" =>
              /\ ~CredentialMissing(call.arg.provider)
              /\ \E k \in 1..Len(call.arg.probes) :
                    call.arg.probes[k] \in {"ok200", "other200", "badjson200"}

\* local-whisper with none of its three endpoints answering 200
C15_Witness ==
    /\ call.fn = "healthCheck"
    /\ call.arg.provider = "local-whisper"
    /\ call.arg.probes = <<"neterr", "non200", "neterr">>
    /\ ret.kind = "returned"
    /\ ret.status = "unavailable"
    /\ ret.message = "No health endpoint responded"

\* C16: the liveness endpoint answers 200 with status "ok" whatever the
\* backends' state; the readiness endpoint answers 200 exactly when the
\* default backend's healthCheck status is "ok" and 503 when it is
\* "degraded" or "unavailable".
C16_LivenessReadiness ==
    /\ call.fn = "GET /health" =>
          /\ reply.status = 200
          /\ reply.body = "ok"
    /\ call.fn = "GET /health/ready" =>
          /\ call.arg.provider = config.asrProvider
          /\ reply.status = 200 <=> ret.status = "ok"
          /\ reply.status = 503 <=> ret.status \in {"degraded", "unavailable"}
          /\ reply.status \in {200, 503}

\* readiness with the default backend answering 200 with a status other
\* than "ok"
C16_Witness ==
    /\ call.fn = "GET /health/ready"
    /\ config.asrProvider = "nvidia"
    /\ call.arg.probes = <<"other200">>
    /\ ret.status = "degraded"
    /\ reply.status = 503

\* the dialog array of a document handed to a function, absent read as empty
ArgDialogs == IF call.arg.dialog.has THEN call.arg.dialog.v ELSE <<>>

\* C17: for every document that passes validation, the audioDialogs of
\* parseVcon are exactly the dialogs of type "recording" whose mediatype is
\* in the whitelist, each paired with its position in the dialog array, in
\* ascending position order, and no other dialog.
C17_AudioDialogs ==
    (call.fn = "parseVcon" /\ ret[1].success) =>
        LET ad == ret[1].audioDialogs
        IN  /\ \A k \in 1..Len(ad) :
                  /\ ad[k].index \in 0..Len(ArgDialogs) - 1
                  /\ ad[k].dialog = ArgDialogs[ad[k].index + 1]
                  /\ AudioBearing(ad[k].dialog)
            /\ \A k \in 1..Len(ad) - 1 : ad[k].index < ad[k + 1].index
            /\ \A j \in 1..Len(ArgDialogs) :
                  AudioBearing(ArgDialogs[j]) =>
                      \E k \in 1..Len(ad) : ad[k].index = j - 1

\* a text dialog with an audio media type followed by an audio recording:
\* only the recording, at position 1
C17_Witness ==
    /\ call.fn = "parseVcon"
    /\ ArgDialogs = <<FnDialog("text", "audio/wav", "data"),
                      FnDialog("recording", "audio/wav", "data")>>
    /\ ret[1].success
    /\ ret[1].audioDialogs =
           <<[index |-> 1,
              dialog |-> FnDialog("recording", "audio/wav", "data")]>>

\* C18: validation rejects every document with a recording or text dialog
\* whose body is present, the empty string included, and whose mediatype is
\* absent; no such dialog is in a normalized document.
C18_BodyNeedsMediatype ==
    (call.fn = "parseVcon"
        /\ \E j \in 1..Len(ArgDialogs) :
              /\ ArgDialogs[j].type \in {"recording", "text"}
              /\ ArgDialogs[j].body # "none"
              /\ ArgDialogs[j].mediatype = "none") =>
        ~ret[1].success

\* C19: normalizeVcon returns, for every validated document, a document
\* whose dialog, analysis and attachments are arrays: empty where the input
\* had none, the input's elements in order otherwise, every other field as
\* in the input; applied to its own result it returns an equal document.
C19_NormalizeIdempotent ==
    (call.fn = "normalizeVcon") =>
        /\ ret[1].dialog = [has |-> TRUE, v |-> ArgDialogs]
        /\ ret[1].analysis =
               [has |-> TRUE,
                v |-> IF call.arg.analysis.has THEN call.arg.analysis.v ELSE <<>>]
        /\ ret[1].attachments =
               [has |-> TRUE,
                v |-> IF call.arg.attachments.has THEN call.arg.attachments.v
                      ELSE <<>>]
        /\ ret[1].uuid = call.arg.uuid
        /\ ret[1].updated_at = call.arg.updated_at
        /\ Len(ret) = 2 => ret[2] = ret[1]

\* a document with two dialogs and neither analysis nor attachments,
\* normalized twice
C19_Witness ==
    /\ call.fn = "normalizeVcon"
    /\ Len(ret) = 2
    /\ Len(ArgDialogs) = 2
    /\ ~call.arg.analysis.has
    /\ ret[2].analysis = [has |-> TRUE, v |-> <<>>]
    /\ ret[2].dialog.v = ArgDialogs

\* the provider result handed to the enricher has no top-level words and
\* has words nested in its segments
OnlyNestedWords ==
    /\ call.fn = "createWtfTranscription"
    /\ Len(ret) = 2
    /\ ~call.arg.transcription.words.has
    /\ \E i \in 1..Len(call.arg.transcription.segments) :
          /\ call.arg.transcription.segments[i].words.has
          /\ call.arg.transcription.segments[i].words.v # <<>>

\* some segment of that result carries a non-empty speaker label
SomeSpeakerLabel ==
    \E i \in 1..Len(call.arg.transcription.segments) :
        call.arg.transcription.segments[i].speaker \notin {"none", ""}

\* C20 as stated: for a result with only segment-nested words, with or
\* without speaker labels, the words of its enrichment equal, field for field
\* (speaker included), the words of the enrichment of the same result with
\* the nested words pre-flattened as top-level words.
C20_Original ==
    OnlyNestedWords => ret[1].words = ret[2].words

\* C20 as amended: the two word collections have the same length and equal
\* id, start, end, text, confidence and is_punctuation word for word; they
\* are equal in every field when no segment carries a speaker label, and
\* the words of the pre-flattened result never have a speaker.
C20_RoundTrip ==
    OnlyNestedWords =>
        LET a == ret[1].words
            b == ret[2].words
        IN  /\ a.has = b.has
            /\ Len(a.v) = Len(b.v)
            /\ \A k \in 1..Len(a.v) :
                  /\ a.v[k].id = k - 1
                  /\ a.v[k].id = b.v[k].id
                  /\ a.v[k].start = b.v[k].start
                  /\ a.v[k].end = b.v[k].end
                  /\ a.v[k].text = b.v[k].text
                  /\ a.v[k].confidence = b.v[k].confidence
                  /\ a.v[k].is_punctuation = b.v[k].is_punctuation
                  /\ ~b.v[k].speaker.has
            /\ ~SomeSpeakerLabel => a = b

\* two segments with nested words, the second one labelled "1": three words
\* numbered 0..2, the last with speaker 1 only in the nested case
C20_Witness ==
    /\ OnlyNestedWords
    /\ Len(call.arg.transcription.segments) = 2
    /\ call.arg.transcription.segments[1].speaker = "none"
    /\ call.arg.transcription.segments[2].speaker = "1"
    /\ Len(call.arg.transcription.segments[1].words.v) = 2
    /\ Len(ret[1].words.v) = 3
    /\ ret[1].words.v[3].id = 2
    /\ ret[1].words.v[3].speaker = [has |-> TRUE, v |-> [nan |-> FALSE, n |-> 1]]
    /\ ~ret[2].words.v[3].speaker.has

\* the enricher has returned the record of a transformed backend response
Enriched ==
    /\ call.fn = "createWtfTranscription"
    /\ Len(ret) = 2

\* the result handed to the enricher and the record it returned
EnrichedResult == call.arg.transcription
EnrichedRecord == ret[2]

\* the positions of the result's segments that carry a (non-empty) speaker
\* label, and the distinct labels they carry
LabelledSegments ==
    {i \in 1..Len(EnrichedResult.segments) :
        EnrichedResult.segments[i].speaker \notin {"none", ""}}
SpeakerLabels ==
    {EnrichedResult.segments[i].speaker : i \in LabelledSegments}

\* C21: the speaker map has exactly one entry per distinct speaker label of
\* the result's segments, whatever the label strings are; it is omitted
\* exactly when no segment carries a label; quality.multiple_speakers is
\* true exactly when the segments carry more than one distinct label.
C21_SpeakerMap ==
    Enriched =>
        /\ EnrichedRecord.speakers.has <=> SpeakerLabels # {}
        /\ Cardinality(DOMAIN EnrichedRecord.speakers.v) =
               Cardinality(SpeakerLabels)
        /\ EnrichedRecord.quality.multiple_speakers <=>
               Cardinality(SpeakerLabels) > 1

\* the positions of the built words that lie within the span of segment seg
WordsWithin(seg) ==
    {k \in 1..Len(EnrichedRecord.words.v) :
        /\ seg.start <= EnrichedRecord.words.v[k].start
        /\ EnrichedRecord.words.v[k].end <= seg.end}

\* C22: word ids are 0..n-1 in collection order and segment ids 0..m-1 in
\* provider order; a segment's words field lists, in ascending order,
\* exactly the ids of the built words within the segment's span, each a
\* valid index into the word collection, and is absent when there is none.
C22_WordAndSegmentIds ==
    Enriched =>
        LET words == EnrichedRecord.words.v
            segs == EnrichedRecord.segments
        IN  /\ \A k \in 1..Len(words) : words[k].id = k - 1
            /\ Len(segs) = Len(EnrichedResult.segments)
            /\ \A i \in 1..Len(segs) :
                  /\ segs[i].id = i - 1
                  /\ segs[i].start = EnrichedResult.segments[i].start
                  /\ segs[i].end = EnrichedResult.segments[i].end
                  /\ segs[i].words.has <=> WordsWithin(segs[i]) # {}
                  /\ segs[i].words.has =>
                        LET ids == segs[i].words.v
                        IN  /\ {ids[j] : j \in 1..Len(ids)} =
                                   {k - 1 : k \in WordsWithin(segs[i])}
                            /\ \A j \in 1..Len(ids) - 1 : ids[j] < ids[j + 1]
                            /\ \A j \in 1..Len(ids) :
                                  ids[j] \in 0..(Len(words) - 1)

\* three top-level words, the second across two segments: one segment
\* lists word 0 only, another word 2 only, a third one has no words field
C22_Witness ==
    /\ Enriched
    /\ Len(EnrichedRecord.words.v) = 3
    /\ Len(EnrichedRecord.segments) = 3
    /\ EnrichedRecord.segments[1].words = [has |-> TRUE, v |-> <<0>>]
    /\ EnrichedRecord.segments[2].words = [has |-> TRUE, v |-> <<2>>]
    /\ ~EnrichedRecord.segments[3].words.has

\* the ids of the built segments that carry a speaker
SpeakerSegmentIds ==
    {EnrichedRecord.segments[i].id : i \in LabelledSegments}

\* the sum of (end - start) over the built segments whose ids are in ids
RECURSIVE SpanSum(_, _)
SpanSum(ids, i) ==
    IF i > Len(EnrichedRecord.segments) THEN 0
    ELSE (IF EnrichedRecord.segments[i].id \in ids
          THEN EnrichedRecord.segments[i].end - EnrichedRecord.segments[i].start
          ELSE 0)
         + SpanSum(ids, i + 1)

\* the set of the ids a speaker's member list holds
Members(speaker) == {speaker.segments[j] : j \in 1..Len(speaker.segments)}

\* C23: the member-segment lists of the speaker map partition the ids of
\* the segments that carry a speaker (each such id is in exactly one list,
\* once, and no id of a speaker-less segment is in any list), and each
\* speaker's total_time is the sum of (end - start) over its member segments.
C23_SpeakerPartition ==
    Enriched =>
        LET speakers == EnrichedRecord.speakers.v
        IN  /\ \A id \in SpeakerSegmentIds :
                  Cardinality({s \in DOMAIN speakers :
                                  id \in Members(speakers[s])}) = 1
            /\ \A s \in DOMAIN speakers :
                  /\ Members(speakers[s]) \subseteq SpeakerSegmentIds
                  /\ Cardinality(Members(speakers[s])) = Len(speakers[s].segments)
                  /\ speakers[s].total_time = SpanSum(Members(speakers[s]), 1)

\* speaker 0 with segments 0 and 2 (2 s each), speaker 1 with segment 1
\* (3 s)
C23_Witness ==
    /\ Enriched
    /\ Len(EnrichedRecord.segments) = 3
    /\ DOMAIN EnrichedRecord.speakers.v = {"0", "1"}
    /\ EnrichedRecord.speakers.v["0"].segments = <<0, 2>>
    /\ EnrichedRecord.speakers.v["0"].total_time = 4
    /\ EnrichedRecord.speakers.v["1"].segments = <<1>>
    /\ EnrichedRecord.speakers.v["1"].total_time = 3

\* C24: the record carries metadata.audio.duration equal to the declared
\* duration whenever the caller supplied one (any non-negative value, 0
\* included), and has no metadata.audio exactly when the caller supplied
\* none.
C24_AudioDuration ==
    Enriched =>
        /\ call.arg.audioDuration # -1 =>
              /\ EnrichedRecord.metadata.audio.has
              /\ EnrichedRecord.metadata.audio.duration = call.arg.audioDuration
        /\ call.arg.audioDuration = -1 => ~EnrichedRecord.metadata.audio.has

\* transformResponse has returned the result of a backend response
Transformed ==
    /\ call.fn = "transformResponse"
    /\ Len(ret) = 1

\* C25: when the backend response reports an overall confidence (any value
\* in [0,1], 0 included) the result's confidence is that value; the
\* unweighted mean of the segments' confidences is used only when the
\* response reports none.
C25_ReportedConfidence ==
    Transformed =>
        LET response == call.arg
            given == IF response.segments.has THEN response.segments.v ELSE <<>>
            confidence == ret[1].confidence
        IN  /\ response.confidence.has =>
                  confidence.num = response.confidence.v * confidence.den
            /\ (~response.confidence.has /\ Len(given) > 0) =>
                  confidence.num * Len(given) = totalConf(given) * confidence.den

\* the positions of the three lists of the result that hold the index x
ExtractedAt(x) ==
    {j \in 1..Len(ret.result.extracted) : ret.result.extracted[j].dialogIndex = x}
ErrorsAt(x) ==
    {j \in 1..Len(ret.result.errors) : ret.result.errors[j].dialogIndex = x}
SkippedAt(x) ==
    {j \in 1..Len(ret.result.skipped) : ret.result.skipped[j] = x}

\* the extraction of entry i failed: it threw, yielded nothing, or yielded
\* audio above the size limit
ExtractionFailed(i) ==
    /\ isAudioDialog(call.arg[i].dialog)
    /\ \/ ret.outcomes[i].kind \in {"throw", "null"}
       \/ ret.outcomes[i].len > maxSizeBytes

\* C26: in extractAudioFromDialogs a dialog whose audio is above the size
\* limit, or whose extraction throws or yields nothing, is recorded as
\* exactly one error under its index, and the loop goes on: every entry
\* handled so far has its index in exactly one of extracted, errors and
\* skipped (a failed one in errors, a non-audio one in skipped, any other in
\* extracted), nothing else is in the lists, and extracted keeps the input
\* order.
C26_ExtractionPartition ==
    call.fn = "extractAudioFromDialogs" =>
        /\ \A i \in 1..ret.k :
              LET x == call.arg[i].index
              IN  /\ Cardinality(ExtractedAt(x)) + Cardinality(ErrorsAt(x))
                         + Cardinality(SkippedAt(x)) = 1
                  /\ ExtractionFailed(i) => Cardinality(ErrorsAt(x)) = 1
                  /\ ~isAudioDialog(call.arg[i].dialog) =>
                        Cardinality(SkippedAt(x)) = 1
                  /\ (isAudioDialog(call.arg[i].dialog) /\ ~ExtractionFailed(i))
                        => Cardinality(ExtractedAt(x)) = 1
        /\ Len(ret.result.extracted) + Len(ret.result.errors)
               + Len(ret.result.skipped) = ret.k
        /\ \A j \in 1..Len(ret.result.extracted) - 1 :
              ret.result.extracted[j].dialogIndex
                  < ret.result.extracted[j + 1].dialogIndex

\* three entries numbered from 1: a fetched recording above the limit, an
\* inline recording, a text dialog; the loop has handled all three
C26_Witness ==
    /\ call.fn = "extractAudioFromDialogs"
    /\ ret.k = 3
    /\ call.arg[1].index = 1
    /\ ret.outcomes[1].kind = "buffer"
    /\ ret.outcomes[1].len > maxSizeBytes
    /\ Len(ret.result.errors) = 1
    /\ ret.result.errors[1].dialogIndex = 1
    /\ Len(ret.result.extracted) = 1
    /\ ret.result.extracted[1].dialogIndex = 2
    /\ ret.result.skipped = <<3>>

\* a confidence in tenths lies in [0,1]
UnitInterval(c) == 0 <= c /\ c <= 10

\* C27: every record built for a document satisfies the canonical record
\* invariants, whatever the backend returned: each segment has end >= start,
\* and the transcript confidence, every segment confidence and every word
\* confidence lie in [0,1].
C27_RecordInvariants ==
    Enriched =>
        /\ \A i \in 1..Len(EnrichedRecord.segments) :
              /\ EnrichedRecord.segments[i].end >= EnrichedRecord.segments[i].start
              /\ UnitInterval(EnrichedRecord.segments[i].confidence)
        /\ \A k \in 1..Len(EnrichedRecord.words.v) :
              UnitInterval(EnrichedRecord.words.v[k].confidence)
        /\ 0 <= EnrichedRecord.transcript.confidence.num
        /\ EnrichedRecord.transcript.confidence.num
               <= 10 * EnrichedRecord.transcript.confidence.den

\* C28: whenever transcribeVcon returns success, stats.dialogsProcessed +
\* stats.dialogsFailed is the number of audio-bearing dialogs of the
\* document, stats.dialogsProcessed is at least 1 and stats.dialogsSkipped
\* is 0 (non-audio dialogs never reach the extractor).
C28_StatsAccounting ==
    \A i \in TaskIds :
        Succeeded(tasks[i]) =>
            LET stats == tasks[i].result.stats
            IN  /\ stats.dialogsProcessed + stats.dialogsFailed =
                       Cardinality(AudioIndices(req.docs[i]))
                /\ stats.dialogsProcessed >= 1
                /\ stats.dialogsSkipped = 0

\* a success on a text dialog followed by an inline recording: one dialog
\* processed, none failed, none skipped
C28_Witness ==
    \E i \in TaskIds :
        /\ req.docs[i].dialog.v = <<TextDialog, InlineAudio>>
        /\ Succeeded(tasks[i])
        /\ tasks[i].result.stats.dialogsProcessed = 1
        /\ tasks[i].result.stats.dialogsFailed = 0
        /\ tasks[i].result.stats.dialogsSkipped = 0

\* C29: in the reply to a batch of documents, summary.provider names the
\* backend that processed the documents: the provider selector when one is
\* given, the configured default backend otherwise, which is the backend
\* transcribeVcon resolved for each document.
C29_SummaryProvider ==
    (/\ req.kind = "batch"
     /\ phase = "replied"
     /\ reply.status = 200
     /\ \E i \in TaskIds : Succeeded(tasks[i])) =>
        /\ reply.summary.provider = ActiveBackend
        /\ \A i \in TaskIds :
              Succeeded(tasks[i]) =>
                  tasks[i].result.stats.provider = reply.summary.provider

\* the model the request asks for: the selector, or the default model of
\* the backend the request resolves to
RequestedModel ==
    IF req.model = "none" THEN providerModel(ActiveBackend) ELSE req.model

\* C30: when the request supplies a model selector, that model is the one
\* every backend call of the request used and the one recorded in
\* stats.model, in every new analysis entry's product and in its body's
\* metadata.model; without a selector it is the backend's default model.
C30_ModelSelector ==
    \A i \in TaskIds :
        Succeeded(tasks[i]) =>
            /\ \A k \in OkCalls(tasks[i]) :
                  tasks[i].calls[k].res.model = RequestedModel
            /\ tasks[i].result.stats.model = RequestedModel
            /\ \A j \in 1..Len(AddedEntries(i)) :
                  /\ AddedEntries(i)[j].product = RequestedModel
                  /\ AddedEntries(i)[j].body.metadata.model = RequestedModel

====
